---------------------------- MODULE Spec2Model ----------------------------
(***************************************************************************)
(* Verification model of the tutoring backend: the session store           *)
(* (backend/agents/session_manager.py), the orchestrator pipeline          *)
(* (backend/agents/orchestrator.py) and its HTTP callers (backend/main.py).*)
(***************************************************************************)
EXTENDS Integers, Sequences, FiniteSets, TLC

VARIABLES
    now,              \* datetime.now(), in seconds
    sessions,         \* SessionManager.sessions
    context_windows,  \* SessionManager.context_windows
    rate_limits,      \* SessionManager.rate_limits
    ret,              \* return value of the last session-store call
    ctx_hist,         \* history: every entry ever appended, per session id
    n_appends,        \* history: number of add_to_context insertions so far
    win,              \* history: per session id, the current fixed window and its admissions
    co,               \* per coroutine calling check_rate_limit: its position and locals
    running,          \* the coroutine the event loop is executing, or None
    pc,               \* the graph node the request in flight is at ("idle": none in flight)
    st,               \* the request state the graph threads through its nodes
    req,              \* the request as the caller sent it
    resp,             \* what the HTTP endpoint gave the caller for the last request
    trace,            \* history: the nodes the request in flight has executed, in order
    err_at,           \* history: Len(trace) when error was first set, else 0
    faults,           \* history: the collaborators that failed during the request
    snap,             \* history: the session store as it was when the request, or the last
                      \* sweep, began
    fn                \* the last call of a pure function: its name, arguments and result

store_vars == <<now, sessions, context_windows, rate_limits, ret, ctx_hist, n_appends, win>>

co_vars == <<co, running>>

pipe_vars == <<pc, st, req, resp, trace, err_at, faults, snap>>

vars == <<now, sessions, context_windows, rate_limits, ret, ctx_hist, n_appends, win,
          co, running, pc, st, req, resp, trace, err_at, faults, snap, fn>>

(***************************************************************************)
(* Bounds of the model.                                                    *)
(***************************************************************************)
MaxTime == 90
CtxMaxTime == 30
TickStep == 30
MaxAppends == 12
SweepMaxTime == 7200
MaxOps == 1
IsoOps == 2
MaxPhonemes == 2
MantissaBits == 6
MaxPhrases == 2
MaxContext == 2
MaxEvents == 12
MaxEmotions == 2
MaxDuration == 40
MemoryEvents == 8

(***************************************************************************)
(* Program constants.                                                      *)
(***************************************************************************)
max_size == 10
max_requests == 60
WindowSeconds == 60
SecondsPerHour == 3600

SessionIds == {"s1", "s2"}
Callers == {"c1", "c2"}
UserIds == {"anonymous"}
Languages == {"en", "hi"}
DefaultLanguage == "en"
None == "None"

EntryType(n) == IF n % 2 = 1 THEN "question" ELSE "answer"

\* datetime.isoformat(): the timestamp rendered as a string
isoformat(t) == <<"iso", t>>

IdleCo == [pc |-> "idle", sid |-> None, t |-> 0]

NoRet == [op |-> "none", sid |-> None, val |-> FALSE]

(***************************************************************************)
(* Session store                                                           *)
(***************************************************************************)
Known == DOMAIN sessions

NewSessionData(id, user_id, language, t) ==
    [session_id |-> id, user_id |-> user_id, language |-> language,
     persona |-> "friendly", created_at |-> t, last_activity |-> t,
     context_window |-> <<>>, rate_limit_count |-> 0,
     rate_limit_reset |-> t + WindowSeconds]

NewContextWindow(id) == [session_id |-> id, entries |-> <<>>, max_size |-> max_size]

NewRateLimit(t) ==
    [requests |-> 0, reset_time |-> t + WindowSeconds, max_requests |-> max_requests]

\* uuid.uuid4(): an id no live session has
FreshIds == SessionIds \ (DOMAIN sessions \cup DOMAIN context_windows \cup DOMAIN rate_limits)

StoreCreate(id, user_id, language) ==
    /\ sessions' = (id :> NewSessionData(id, user_id, language, now)) @@ sessions
    /\ context_windows' = (id :> NewContextWindow(id)) @@ context_windows
    /\ rate_limits' = (id :> NewRateLimit(now)) @@ rate_limits
    /\ ctx_hist' = [ctx_hist EXCEPT ![id] = <<>>]
    /\ win' = [win EXCEPT ![id] = [start |-> now, admits |-> 0]]

create_session(id, user_id, language) ==
    /\ id \in FreshIds
    /\ StoreCreate(id, user_id, language)
    /\ ret' = [op |-> "create_session", sid |-> id, val |-> TRUE]
    /\ UNCHANGED <<now, n_appends, co_vars, pipe_vars, fn>>

MemoryEntry(t, type, content) == [timestamp |-> t, type |-> type, content |-> content]

\* entries[-max_size:]
LastN(s, n) == IF Len(s) > n THEN SubSeq(s, Len(s) - n + 1, Len(s)) ELSE s

\* entries[:max_size]: the oldest entries kept instead of the newest
FirstN(s, n) == IF Len(s) > n THEN SubSeq(s, 1, n) ELSE s

AppendKeepFirst(cw, entry) ==
    LET appended == Append(cw.entries, entry)
    IN  [cw EXCEPT !.entries = IF Len(appended) > cw.max_size
                                THEN FirstN(appended, cw.max_size)
                                ELSE appended]

\* context_window.entries.append(entry) and the sliding-window trim
AppendEntry(cw, entry) ==
    LET appended == Append(cw.entries, entry)
    IN  [cw EXCEPT !.entries = IF Len(appended) > cw.max_size
                                THEN LastN(appended, cw.max_size)
                                ELSE appended]

EntryDict(e) ==
    [timestamp |-> isoformat(e.timestamp), type |-> e.type, content |-> e.content]

EntryDicts(entries) == [i \in 1..Len(entries) |-> EntryDict(entries[i])]

add_to_context_setdefault(id, entry_type, content) ==
    /\ n_appends < MaxAppends
    /\ LET entry == MemoryEntry(now, entry_type, content)
           found == IF id \in DOMAIN context_windows THEN context_windows[id]
                    ELSE NewContextWindow(id)
           cw == AppendEntry(found, entry)
       IN  /\ context_windows' = (id :> cw) @@ context_windows
           /\ sessions' = IF id \in DOMAIN sessions
                          THEN [sessions EXCEPT ![id].context_window = EntryDicts(cw.entries)]
                          ELSE sessions
           /\ ctx_hist' = [ctx_hist EXCEPT ![id] = Append(@, entry)]
           /\ n_appends' = n_appends + 1
           /\ ret' = [op |-> "add_to_context", sid |-> id, val |-> TRUE]
    /\ UNCHANGED <<now, rate_limits, win, co_vars, pipe_vars, fn>>

add_to_context(id, entry_type, content) ==
    /\ n_appends < MaxAppends
    /\ IF id \notin DOMAIN context_windows
       THEN /\ ret' = [op |-> "add_to_context", sid |-> id, val |-> FALSE]
            /\ UNCHANGED <<sessions, context_windows, ctx_hist, n_appends>>
       ELSE LET entry == MemoryEntry(now, entry_type, content)
                cw == AppendEntry(context_windows[id], entry)
            IN  /\ context_windows' = [context_windows EXCEPT ![id] = cw]
                /\ sessions' = IF id \in DOMAIN sessions
                               THEN [sessions EXCEPT ![id].context_window = EntryDicts(cw.entries)]
                               ELSE sessions
                /\ ctx_hist' = [ctx_hist EXCEPT ![id] = Append(@, entry)]
                /\ n_appends' = n_appends + 1
                /\ ret' = [op |-> "add_to_context", sid |-> id, val |-> TRUE]
    /\ UNCHANGED <<now, rate_limits, win, co_vars, pipe_vars, fn>>

\* the k-th insertion into a session carries content k
AddToContext ==
    \E id \in SessionIds :
        LET k == Len(ctx_hist[id]) + 1 IN add_to_context(id, EntryType(k), k)

\* create_session(user_id) with the default language
CreateSession == \E id \in SessionIds, u \in UserIds : create_session(id, u, DefaultLanguage)

Tick(limit) ==
    /\ now + TickStep <= limit
    /\ now' = now + TickStep
    /\ UNCHANGED <<sessions, context_windows, rate_limits, ret, ctx_hist, n_appends, win,
                   co_vars, pipe_vars, fn>>

(***************************************************************************)
(* check_rate_limit, statement by statement                                *)
(***************************************************************************)
ResetAdvancesWindow(rl, t) ==
    IF t >= rl.reset_time
    THEN [rl EXCEPT !.requests = 0, !.reset_time = rl.reset_time + WindowSeconds]
    ELSE rl

\* if now >= reset_time: requests = 0; reset_time = now + 1 minute
ResetIfPassed(rl, t) ==
    IF t >= rl.reset_time
    THEN [rl EXCEPT !.requests = 0, !.reset_time = t + WindowSeconds]
    ELSE rl

WithinLimitOffByOne(rl) == ~(rl.requests > rl.max_requests)

\* the negation of: requests >= max_requests
WithinLimit(rl) == ~(rl.requests >= rl.max_requests)

\* rate_limit["requests"] += 1
Increment(rl) == [rl EXCEPT !.requests = @ + 1]

\* history: the fixed window a call at time t falls in, and the admission it adds
WinAt(w, t) == IF t >= w.start + WindowSeconds THEN [start |-> t, admits |-> 0] ELSE w

WinAdmit(w, t, admitted) ==
    LET w1 == WinAt(w, t) IN IF admitted THEN [w1 EXCEPT !.admits = @ + 1] ELSE w1

CheckRateLimitGlobal(rls, id, t) ==
    IF id \notin DOMAIN rls
    THEN [rls |-> rls, val |-> TRUE]
    ELSE LET rl == ResetIfPassed(rls[id], t)
         IN  IF WithinLimit(rl)
             THEN [rls |-> [x \in DOMAIN rls |-> IF x = id THEN Increment(rl)
                                                  ELSE Increment(rls[x])],
                   val |-> TRUE]
             ELSE [rls |-> [rls EXCEPT ![id] = rl], val |-> FALSE]

\* a limiter that refuses the sessions it does not know
CheckRateLimitFailClosed(rls, id, t) ==
    IF id \notin DOMAIN rls
    THEN [rls |-> rls, val |-> FALSE]
    ELSE LET rl == ResetIfPassed(rls[id], t)
         IN  IF WithinLimit(rl)
             THEN [rls |-> [rls EXCEPT ![id] = Increment(rl)], val |-> TRUE]
             ELSE [rls |-> [rls EXCEPT ![id] = rl], val |-> FALSE]

\* the whole call: the new rate_limits map and the value returned
CheckRateLimit(rls, id, t) ==
    IF id \notin DOMAIN rls
    THEN [rls |-> rls, val |-> TRUE]
    ELSE LET rl == ResetIfPassed(rls[id], t)
         IN  IF WithinLimit(rl)
             THEN [rls |-> [rls EXCEPT ![id] = Increment(rl)], val |-> TRUE]
             ELSE [rls |-> [rls EXCEPT ![id] = rl], val |-> FALSE]

\* one call, run to completion: the coroutine holds the event loop throughout
check_rate_limit(id) ==
    LET r == CheckRateLimit(rate_limits, id, now)
    IN  /\ rate_limits' = r.rls
        /\ ret' = [op |-> "check_rate_limit", sid |-> id, val |-> r.val]
        /\ win' = IF id \in DOMAIN rate_limits
                  THEN [win EXCEPT ![id] = WinAdmit(@, now, r.val)]
                  ELSE win
        /\ UNCHANGED <<now, sessions, context_windows, ctx_hist, n_appends, co_vars, pipe_vars, fn>>

CheckRateLimitCall == \E id \in SessionIds : check_rate_limit(id)

\* an hour goes by
HourTick(limit) ==
    /\ now + SecondsPerHour <= limit
    /\ now' = now + SecondsPerHour
    /\ UNCHANGED <<sessions, context_windows, rate_limits, ret, ctx_hist, n_appends, win,
                   co_vars, pipe_vars, fn>>

(***************************************************************************)
(* Lookup, activity and the reclamation sweep                              *)
(***************************************************************************)
NotFound == [is_none |-> TRUE]

\* history: the store as an operation finds it
Snapshot == [t |-> now, sessions |-> sessions, context_windows |-> context_windows,
             rate_limits |-> rate_limits]

\* SessionResponse(...): language is a Language, never None
SessionResponse(session_data) ==
    [session_id |-> session_data.session_id, user_id |-> session_data.user_id,
     language |-> session_data.language, persona |-> session_data.persona,
     created_at |-> session_data.created_at,
     context_window |-> session_data.context_window]

GetSessionOrEmpty(ss, id) ==
    IF id \notin DOMAIN ss
    THEN [session_id |-> id, user_id |-> "anonymous", language |-> DefaultLanguage,
          persona |-> "friendly", created_at |-> 0, context_window |-> <<>>]
    ELSE IF ss[id].language \notin Languages THEN NotFound
    ELSE SessionResponse(ss[id])

\* the value get_session returns: None for an unknown id, and None again when
\* building the response raises
GetSessionResult(ss, id) ==
    IF id \notin DOMAIN ss THEN NotFound
    ELSE IF ss[id].language \notin Languages THEN NotFound
    ELSE SessionResponse(ss[id])

get_session(id) ==
    /\ ret' = [op |-> "get_session", sid |-> id, val |-> GetSessionResult(sessions, id)]
    /\ UNCHANGED <<now, sessions, context_windows, rate_limits, ctx_hist, n_appends, win,
                   co_vars, pipe_vars, fn>>

GetSession == \E id \in SessionIds : get_session(id)

update_session_activity(id) ==
    /\ IF id \in DOMAIN sessions
       THEN /\ sessions' = [sessions EXCEPT ![id].last_activity = now]
            /\ ret' = [op |-> "update_session_activity", sid |-> id, val |-> TRUE]
       ELSE /\ ret' = [op |-> "update_session_activity", sid |-> id, val |-> FALSE]
            /\ UNCHANGED sessions
    /\ UNCHANGED <<now, context_windows, rate_limits, ctx_hist, n_appends, win,
                   co_vars, pipe_vars, fn>>

UpdateSessionActivity == \E id \in SessionIds : update_session_activity(id)

MaxAgeHours == {0, 1}

CutoffInMinutes(t, max_age_hours) == t - max_age_hours * 60

\* cutoff_time = datetime.now() - timedelta(hours=max_age_hours)
CutoffTime(t, max_age_hours) == t - max_age_hours * SecondsPerHour

ExpiredInclusive(session_data, cutoff_time) == session_data.last_activity <= cutoff_time

\* session_data["last_activity"] < cutoff_time
Expired(session_data, cutoff_time) == session_data.last_activity < cutoff_time

\* map.pop(id, None) for every id of ids
PopAll(map, ids) == [id \in DOMAIN map \ ids |-> map[id]]

\* a sweep that forgets the rate-limit map
CleanupKeepsRateLimits(max_age_hours) ==
    LET cutoff_time == CutoffTime(now, max_age_hours)
        sessions_to_remove == {id \in DOMAIN sessions : Expired(sessions[id], cutoff_time)}
    IN  /\ sessions' = PopAll(sessions, sessions_to_remove)
        /\ context_windows' = PopAll(context_windows, sessions_to_remove)
        /\ ret' = [op |-> "cleanup_old_sessions", sid |-> None,
                   val |-> Cardinality(sessions_to_remove),
                   max_age_hours |-> max_age_hours]
        /\ snap' = Snapshot
        /\ ctx_hist' = [id \in SessionIds |->
                           IF id \in sessions_to_remove THEN <<>> ELSE ctx_hist[id]]
        /\ win' = [id \in SessionIds |->
                      IF id \in sessions_to_remove THEN [start |-> 0, admits |-> 0]
                      ELSE win[id]]
        /\ UNCHANGED <<now, n_appends, co_vars, rate_limits,
                       pc, st, req, resp, trace, err_at, faults, fn>>

cleanup_old_sessions(max_age_hours) ==
    LET cutoff_time == CutoffTime(now, max_age_hours)
        sessions_to_remove == {id \in DOMAIN sessions : Expired(sessions[id], cutoff_time)}
    IN  /\ sessions' = PopAll(sessions, sessions_to_remove)
        /\ context_windows' = PopAll(context_windows, sessions_to_remove)
        /\ rate_limits' = PopAll(rate_limits, sessions_to_remove)
        /\ ret' = [op |-> "cleanup_old_sessions", sid |-> None,
                   val |-> Cardinality(sessions_to_remove),
                   max_age_hours |-> max_age_hours]
        /\ snap' = Snapshot
        /\ ctx_hist' = [id \in SessionIds |->
                           IF id \in sessions_to_remove THEN <<>> ELSE ctx_hist[id]]
        /\ win' = [id \in SessionIds |->
                      IF id \in sessions_to_remove THEN [start |-> 0, admits |-> 0]
                      ELSE win[id]]
        /\ UNCHANGED <<now, n_appends, co_vars,
                       pc, st, req, resp, trace, err_at, faults, fn>>

Sweep == \E h \in MaxAgeHours : cleanup_old_sessions(h)

\* a few insertions and a few rate-limit checks, to give the sessions content
FewAppends == n_appends < MaxOps /\ AddToContext

FewChecks == \E id \in SessionIds : win[id].admits < MaxOps /\ check_rate_limit(id)

\* requests on two sessions, a few per session
SomeAppends == n_appends < 2 * IsoOps /\ AddToContext

SomeChecks == \E id \in SessionIds : win[id].admits < IsoOps /\ check_rate_limit(id)

(***************************************************************************)
(* check_rate_limit as a coroutine on the asyncio event loop: a coroutine  *)
(* keeps the loop until it reaches an await that suspends it.              *)
(***************************************************************************)
SuspendsAfterCheck(label) == label = "check"

\* the statements of check_rate_limit after which the coroutine suspends:
\* its body holds no await
Suspends(label) == FALSE

Yield(c, label) == running' = IF Suspends(label) THEN None ELSE c

Return(c, id, t, val) ==
    /\ co' = [co EXCEPT ![c] = [pc |-> "idle", sid |-> id, t |-> 0]]
    /\ running' = None
    /\ ret' = [op |-> "check_rate_limit", sid |-> id, val |-> val]
    /\ win' = IF id \in DOMAIN rate_limits
              THEN [win EXCEPT ![id] = WinAdmit(@, t, val)]
              ELSE win

\* if session_id not in self.rate_limits: return True; now = datetime.now()
co_begin(c, id) ==
    /\ co[c].pc = "idle"
    /\ running = None
    /\ IF id \notin DOMAIN rate_limits
       THEN Return(c, id, now, TRUE)
       ELSE /\ co' = [co EXCEPT ![c] = [pc |-> "reset", sid |-> id, t |-> now]]
            /\ Yield(c, "begin")
            /\ UNCHANGED <<ret, win>>
    /\ UNCHANGED <<now, sessions, context_windows, rate_limits, ctx_hist, n_appends, pipe_vars, fn>>

co_reset(c) ==
    /\ co[c].pc = "reset"
    /\ running \in {None, c}
    /\ rate_limits' = [rate_limits EXCEPT ![co[c].sid] = ResetIfPassed(@, co[c].t)]
    /\ co' = [co EXCEPT ![c].pc = "check"]
    /\ Yield(c, "reset")
    /\ UNCHANGED <<now, sessions, context_windows, ret, ctx_hist, n_appends, win, pipe_vars, fn>>

co_check(c) ==
    /\ co[c].pc = "check"
    /\ running \in {None, c}
    /\ IF WithinLimit(rate_limits[co[c].sid])
       THEN /\ co' = [co EXCEPT ![c].pc = "incr"]
            /\ Yield(c, "check")
            /\ UNCHANGED <<ret, win>>
       ELSE Return(c, co[c].sid, co[c].t, FALSE)
    /\ UNCHANGED <<now, sessions, context_windows, rate_limits, ctx_hist, n_appends, pipe_vars, fn>>

co_incr(c) ==
    /\ co[c].pc = "incr"
    /\ running \in {None, c}
    /\ rate_limits' = [rate_limits EXCEPT ![co[c].sid] = Increment(@)]
    /\ Return(c, co[c].sid, co[c].t, TRUE)
    /\ UNCHANGED <<now, sessions, context_windows, ctx_hist, n_appends, pipe_vars, fn>>

CoBegin == \E c \in Callers, id \in SessionIds : co_begin(c, id)
CoReset == \E c \in Callers : co_reset(c)
CoCheck == \E c \in Callers : co_check(c)
CoIncr == \E c \in Callers : co_incr(c)

\* the one session the concurrent callers share
CreateShared == Known = {} /\ CreateSession

(***************************************************************************)
(* Orchestrator: the request state and the graph                           *)
(***************************************************************************)
NoDict == [is_none |-> TRUE]

ApologyText == "I apologize, but I encountered an error processing your request. Please try again."
LlmApologyText == "I apologize, but I'm having trouble processing your request. Could you please try again?"

ErrNoAudio == "No audio data provided"
ErrNoTranscript == "No transcript provided"
ErrNoText == "No text provided"
ErrNoTeaching == "No teaching response provided"
ErrNoSynthesized == "No synthesized response provided"
ErrMissingTTS == "Missing TTS or synthesized response"
ErrRecognizer == "Speech recognition failed: service error"
ErrValidation == "validation error"

\* Python truthiness of a str / bytes / None value
Falsy(v) == v \in {None, ""}

\* the keys of the state dict; a key never written reads as None
BlankState ==
    [audio_data |-> None, session_id |-> None, transcript |-> None, language |-> None,
     normalized_text |-> None, intent |-> None, subject |-> None, priority |-> None,
     context |-> <<>>, confidence |-> None,
     teaching_response |-> NoDict, synthesized_response |-> NoDict, tts_output |-> NoDict,
     avatar_output |-> NoDict, final_response |-> NoDict, error |-> None]

\* the node's dict taken as the whole state
MergeReplace(state, update) ==
    [k \in DOMAIN state |-> IF k \in DOMAIN update THEN update[k] ELSE BlankState[k]]

\* a node returns a partial dict; the graph writes its keys over the state
Merge(state, update) ==
    [k \in DOMAIN state |-> IF k \in DOMAIN update THEN update[k] ELSE state[k]]

Nodes == {"session_manager", "stt_agent", "language_detector", "intent_router",
          "teaching_agent", "response_synthesizer", "tts_agent", "avatar_coordinator",
          "error_handler"}

EntryPoint == "session_manager"

NextNodeRetryTTS(n) ==
    CASE n = "session_manager" -> "stt_agent"
      [] n = "stt_agent" -> "language_detector"
      [] n = "language_detector" -> "intent_router"
      [] n = "intent_router" -> "teaching_agent"
      [] n = "teaching_agent" -> "response_synthesizer"
      [] n = "response_synthesizer" -> "tts_agent"
      [] n = "tts_agent" -> "tts_agent"
      [] n = "avatar_coordinator" -> "END"
      [] n = "error_handler" -> "END"

\* workflow.add_edge(a, b): the only edges the graph has
NextNode(n) ==
    CASE n = "session_manager" -> "stt_agent"
      [] n = "stt_agent" -> "language_detector"
      [] n = "language_detector" -> "intent_router"
      [] n = "intent_router" -> "teaching_agent"
      [] n = "teaching_agent" -> "response_synthesizer"
      [] n = "response_synthesizer" -> "tts_agent"
      [] n = "tts_agent" -> "avatar_coordinator"
      [] n = "avatar_coordinator" -> "END"
      [] n = "error_handler" -> "END"

get_context(cws, id) ==
    IF id \notin DOMAIN cws THEN <<>> ELSE EntryDicts(cws[id].entries)

\* the session node creates a session when the request carries no id
CreatesSession(state) == Falsy(state.session_id)

\* new_id: the uuid create_session draws. SessionResponse(language=None) fails
\* its validation after the three maps are written, and create_session re-raises.
_session_manager_node(state, cws, new_id) ==
    IF CreatesSession(state)
    THEN IF state.language = None
         THEN [error |-> ErrValidation]
         ELSE [session_id |-> new_id, context |-> <<>>]
    ELSE [session_id |-> state.session_id, context |-> get_context(cws, state.session_id)]

\* the collaborator outcomes a node can meet, given the state it is run on
Outcomes(n, state) ==
    CASE n = "stt_agent" /\ ~Falsy(state.audio_data) -> {"ok", "unintelligible", "service_error"}
      [] n = "language_detector" /\ ~Falsy(state.transcript) -> Languages
      [] n = "teaching_agent"
           /\ ~(Falsy(state.normalized_text) /\ Falsy(state.transcript))
           /\ state.session_id # None -> {"ok", "fail"}
      [] n = "tts_agent" /\ state.synthesized_response # NoDict -> {"ok", "fail"}
      [] n = "avatar_coordinator"
           /\ state.tts_output # NoDict /\ state.synthesized_response # NoDict -> {"ok", "fail"}
      [] OTHER -> {"ok"}

HintOrEnglish(state) == IF state.language = None THEN DefaultLanguage ELSE state.language

_stt_agent_node(state, o) ==
    IF Falsy(state.audio_data)
    THEN [error |-> ErrNoAudio]
    ELSE CASE o = "ok" ->
                [transcript |-> "question", language |-> HintOrEnglish(state),
                 confidence |-> "0.9"]
           [] o = "unintelligible" ->
                [transcript |-> "", language |-> HintOrEnglish(state), confidence |-> "0.0"]
           [] o = "service_error" -> [error |-> ErrRecognizer]

\* LanguageDetector.normalize_text: contractions and abbreviations expanded
normalize_text(text) == IF text = "question" THEN "question (normalized)" ELSE text

_language_detector_node(state, detected) ==
    IF Falsy(state.transcript)
    THEN [error |-> ErrNoTranscript]
    ELSE [language |-> detected, normalized_text |-> normalize_text(state.transcript)]

TextOf(state) ==
    IF ~Falsy(state.normalized_text) THEN state.normalized_text ELSE state.transcript

\* an intent router that resets the error on success
IntentRouterClearsError(state) ==
    IF Falsy(TextOf(state))
    THEN [error |-> ErrNoText]
    ELSE [intent |-> "ask", subject |-> "general", priority |-> "normal", error |-> None]

_intent_router_node(state) ==
    IF Falsy(TextOf(state))
    THEN [error |-> ErrNoText]
    ELSE [intent |-> "ask", subject |-> "general", priority |-> "normal"]

\* TeachingAgent.generate_response never raises: a failed LLM call yields the
\* agent's own apology text with confidence 0.0
generate_response(o) ==
    IF o = "ok"
    THEN [text |-> "answer", summary |-> "answer", confidence |-> "0.5"]
    ELSE [text |-> LlmApologyText, summary |-> "Error in processing", confidence |-> "0.0"]

\* AgentRequest(session_id=None) fails its validation
_teaching_agent_node(state, o) ==
    IF Falsy(TextOf(state))
    THEN [error |-> ErrNoText]
    ELSE IF state.session_id = None
         THEN [error |-> ErrValidation]
         ELSE [teaching_response |-> generate_response(o)]

\* ResponseSynthesizer: the text wrapped for the emotion
ShapeText(text) ==
    IF text = "answer" THEN "Great question! answer Keep it up!"
    ELSE "Great question! (agent apology) Keep it up!"

_response_synthesizer_node(state) ==
    IF state.teaching_response = NoDict
    THEN [error |-> ErrNoTeaching]
    ELSE [synthesized_response |->
            [text |-> ShapeText(state.teaching_response.text),
             voice_style |-> "friendly_male", language |-> state.language,
             emotion |-> "encouraging", gesture_tag |-> "affirmative"]]

\* TTSAgent.synthesize_speech never raises: a failed synthesis yields empty
\* audio and no phoneme timestamps
synthesize_speech(o) ==
    IF o = "ok"
    THEN [audio_data |-> "speech", phoneme_timestamps |-> <<"ph">>]
    ELSE [audio_data |-> "", phoneme_timestamps |-> <<>>]

_tts_agent_node(state, o) ==
    IF state.synthesized_response = NoDict
    THEN [error |-> ErrNoSynthesized]
    ELSE [tts_output |-> synthesize_speech(o)]

\* AvatarCoordinator.generate_avatar never raises
generate_avatar(o) ==
    IF o = "ok"
    THEN [video_url |-> "http://localhost:8000/avatars/generated.mp4", expected_delay_ms |-> 1500]
    ELSE [video_url |-> None, expected_delay_ms |-> 2000]

_avatar_coordinator_node(state, o) ==
    IF state.tts_output = NoDict \/ state.synthesized_response = NoDict
    THEN [error |-> ErrMissingTTS]
    ELSE LET avatar == generate_avatar(o)
             teaching == state.teaching_response
         IN  [avatar_output |-> avatar,
              final_response |->
                [text |-> state.synthesized_response.text,
                 summary |-> IF teaching = NoDict THEN None ELSE teaching.summary,
                 confidence |-> IF teaching = NoDict THEN "0.0" ELSE teaching.confidence,
                 video_url |-> avatar.video_url,
                 audio_data |-> state.tts_output.audio_data]]

_error_handler_node(state) ==
    [final_response |->
        [text |-> ApologyText, summary |-> "Error occurred", confidence |-> "0.0",
         video_url |-> None, audio_data |-> None],
     error |-> state.error]

\* the update the node at n returns
RunNode(n, state, cws, new_id, o) ==
    CASE n = "session_manager" -> _session_manager_node(state, cws, new_id)
      [] n = "stt_agent" -> _stt_agent_node(state, o)
      [] n = "language_detector" -> _language_detector_node(state, o)
      [] n = "intent_router" -> _intent_router_node(state)
      [] n = "teaching_agent" -> _teaching_agent_node(state, o)
      [] n = "response_synthesizer" -> _response_synthesizer_node(state)
      [] n = "tts_agent" -> _tts_agent_node(state, o)
      [] n = "avatar_coordinator" -> _avatar_coordinator_node(state, o)
      [] n = "error_handler" -> _error_handler_node(state)

\* the collaborator whose failure outcome o records
Fault(n, o) ==
    CASE n = "stt_agent" /\ o = "service_error" -> {"recognizer"}
      [] n = "teaching_agent" /\ o = "fail" -> {"llm"}
      [] n = "tts_agent" /\ o = "fail" -> {"synthesizer"}
      [] n = "avatar_coordinator" /\ o = "fail" -> {"renderer"}
      [] OTHER -> {}

NoResp == [status |-> 0, detail |-> None, text |-> None, transcript |-> None]

Begin(kind, state) ==
    /\ pc = "idle"
    /\ (CreatesSession(state) => FreshIds # {})
    /\ pc' = EntryPoint
    /\ st' = state
    /\ req' = [kind |-> kind, session_id |-> state.session_id]
    /\ resp' = NoResp
    /\ trace' = <<>>
    /\ err_at' = 0
    /\ faults' = {}
    /\ snap' = Snapshot
    /\ UNCHANGED <<store_vars, co_vars, fn>>

\* AgentOrchestrator.process_text: language or Language.ENGLISH
process_text(text, session_id, language) ==
    Begin("text", [BlankState EXCEPT !.transcript = text, !.session_id = session_id,
                                     !.language = IF language = None THEN DefaultLanguage
                                                  ELSE language])

\* AgentOrchestrator.process_audio
process_audio(audio_data, session_id, language_hint) ==
    Begin("audio", [BlankState EXCEPT !.audio_data = audio_data, !.session_id = session_id,
                                      !.language = language_hint])

ProcessText ==
    \E text \in {"", "question"}, id \in SessionIds \cup {""}, l \in {None, "hi"} :
        process_text(text, id, l)

ProcessAudio ==
    \E audio \in {"", "audio"}, id \in SessionIds \cup {None}, l \in {None, "en"} :
        process_audio(audio, id, l)

\* graph.ainvoke, one node at a time: run the node, write its update over the
\* state, follow the node's edge
ainvoke_step ==
    /\ pc \in Nodes
    /\ \E o \in Outcomes(pc, st), new_id \in (IF pc = "session_manager" /\ CreatesSession(st)
                                              THEN FreshIds ELSE {None}) :
          LET update == RunNode(pc, st, context_windows, new_id, o)
          IN  /\ st' = Merge(st, update)
              /\ IF new_id # None
                 THEN /\ StoreCreate(new_id, "anonymous", st.language)
                      /\ ret' = [op |-> "create_session", sid |-> new_id, val |-> TRUE]
                 ELSE UNCHANGED <<sessions, context_windows, rate_limits, ctx_hist, win, ret>>
              /\ faults' = faults \cup Fault(pc, o)
    /\ trace' = Append(trace, pc)
    /\ err_at' = IF err_at = 0 /\ st.error = None /\ st'.error # None
                 THEN Len(trace) + 1 ELSE err_at
    /\ pc' = NextNode(pc)
    /\ UNCHANGED <<now, n_appends, co_vars, fn, req, resp, snap>>

\* what orchestrator.process_text / process_audio hand back once the graph has
\* ended, and what the endpoint in main.py makes of it:
\* raise Exception(result["error"]) becomes HTTPException(500, detail=str(e))
Respond(kind, result) ==
    IF result.error # None
    THEN [status |-> 500, detail |-> result.error, text |-> None, transcript |-> None]
    ELSE IF kind = "text"
         THEN [status |-> 200, detail |-> None,
               text |-> IF result.final_response = NoDict THEN ""
                        ELSE result.final_response.text,
               transcript |-> None]
         ELSE [status |-> 200, detail |-> None, text |-> None,
               transcript |-> result.transcript]

respond ==
    /\ pc = "END"
    /\ resp' = Respond(req.kind, st)
    /\ pc' = "idle"
    /\ UNCHANGED <<store_vars, co_vars, fn, st, req, trace, err_at, faults, snap>>

(***************************************************************************)
(* Session store: the read operations get_context and get_session_config.  *)
(***************************************************************************)
store_get_context(id) ==
    /\ ret' = [op |-> "get_context", sid |-> id, val |-> get_context(context_windows, id)]
    /\ UNCHANGED <<now, sessions, context_windows, rate_limits, ctx_hist, n_appends, win,
                   co_vars, pipe_vars, fn>>

GetContext == \E id \in SessionIds : store_get_context(id)

\* the dict get_session_config returns for a session it does not know
NoConfig == [is_empty |-> TRUE]

SessionConfig(session_data, context, rate_limit_ok) ==
    [session_id |-> session_data.session_id, user_id |-> session_data.user_id,
     language |-> session_data.language, context |-> context,
     rate_limit_ok |-> rate_limit_ok]

\* a get_session_config that reads the limiter without calling it
GetSessionConfigReadOnly(id) ==
    /\ ret' = [op |-> "get_session_config", sid |-> id,
               val |-> IF id \notin DOMAIN sessions THEN NoConfig
                       ELSE SessionConfig(sessions[id], get_context(context_windows, id),
                                          WithinLimit(rate_limits[id]))]
    /\ UNCHANGED <<now, sessions, context_windows, rate_limits, ctx_hist, n_appends, win,
                   co_vars, pipe_vars, fn>>

\* the dict is built by calling get_context and then check_rate_limit
get_session_config(id) ==
    IF id \notin DOMAIN sessions
    THEN /\ ret' = [op |-> "get_session_config", sid |-> id, val |-> NoConfig]
         /\ UNCHANGED <<now, sessions, context_windows, rate_limits, ctx_hist, n_appends, win,
                        co_vars, pipe_vars, fn>>
    ELSE LET context == get_context(context_windows, id)
             r == CheckRateLimit(rate_limits, id, now)
         IN  /\ rate_limits' = r.rls
             /\ ret' = [op |-> "get_session_config", sid |-> id,
                        val |-> SessionConfig(sessions[id], context, r.val)]
             /\ win' = IF id \in DOMAIN rate_limits
                       THEN [win EXCEPT ![id] = WinAdmit(@, now, r.val)]
                       ELSE win
             /\ UNCHANGED <<now, sessions, context_windows, ctx_hist, n_appends,
                            co_vars, pipe_vars, fn>>

\* a few configuration reads per session
SomeConfigs == \E id \in SessionIds : win[id].admits < IsoOps /\ get_session_config(id)

(***************************************************************************)
(* Avatar coordinator: the three timelines and generate_avatar.            *)
(* Phoneme times are in tenths of a second.                                *)
(***************************************************************************)
RECURSIVE Pow2(_)
Pow2(n) == IF n = 0 THEN 1 ELSE 2 * Pow2(n - 1)

RECURSIVE Exponent(_, _)
\* the exponent at which x has at most MantissaBits significant bits
Exponent(x, e) == IF x \div Pow2(e) < Pow2(MantissaBits) THEN e ELSE Exponent(x, e + 1)

\* a non-negative value rounded to the nearest float, ties to even
RoundNat(x) ==
    LET e == Exponent(x, 0)
        q == x \div Pow2(e)
        r == x % Pow2(e)
    IN  IF e = 0 THEN x
        ELSE IF 2 * r > Pow2(e) \/ (2 * r = Pow2(e) /\ q % 2 = 1)
             THEN (q + 1) * Pow2(e)
             ELSE q * Pow2(e)

RoundFloat(x) == IF x < 0 THEN 0 - RoundNat(0 - x) ELSE RoundNat(x)

\* float a - b
FloatSub(a, b) == RoundFloat(a - b)

\* float a + b
FloatAdd(a, b) == RoundFloat(a + b)

Emotions == {"calm", "encouraging", "corrective", "excited", "neutral"}

GestureTags == {"affirmative", "corrective", "illustrative", "questioning", "pointing"}

\* self.gesture_animations.get(gesture_tag, ...[GestureTag.AFFIRMATIVE]);
\* duration in tenths of a second
gesture_animations(gesture_tag) ==
    CASE gesture_tag = "corrective" -> [animation |-> "shake_head", duration |-> 12, intensity |-> "medium"]
      [] gesture_tag = "illustrative" -> [animation |-> "point", duration |-> 20, intensity |-> "high"]
      [] gesture_tag = "questioning" -> [animation |-> "tilt_head", duration |-> 15, intensity |-> "low"]
      [] gesture_tag = "pointing" -> [animation |-> "point_forward", duration |-> 18, intensity |-> "medium"]
      [] OTHER -> [animation |-> "nod", duration |-> 10, intensity |-> "medium"]

\* self.emotion_expressions.get(emotion, ...[Emotion.NEUTRAL])
emotion_expressions(emotion) ==
    CASE emotion = "calm" -> [facial_expression |-> "neutral", mouth_shape |-> "relaxed"]
      [] emotion = "encouraging" -> [facial_expression |-> "smile", mouth_shape |-> "smile"]
      [] emotion = "corrective" -> [facial_expression |-> "concerned", mouth_shape |-> "slight_frown"]
      [] emotion = "excited" -> [facial_expression |-> "enthusiastic", mouth_shape |-> "big_smile"]
      [] OTHER -> [facial_expression |-> "neutral", mouth_shape |-> "neutral"]

\* emotion_intensity.get(emotion, 0.5), in tenths
emotion_intensity(emotion) ==
    CASE emotion = "calm" -> 3
      [] emotion = "encouraging" -> 7
      [] emotion = "corrective" -> 6
      [] emotion = "excited" -> 9
      [] OTHER -> 5

\* a phoneme dict whose start and end are numbers
WellFormed(p) == p.well_formed

AllWellFormed(phoneme_timestamps) ==
    \A i \in 1..Len(phoneme_timestamps) : WellFormed(phoneme_timestamps[i])

\* max([p.get('end', 0) for p in phoneme_timestamps])
MaxEnd(phoneme_timestamps) ==
    CHOOSE m \in {phoneme_timestamps[i].end : i \in 1..Len(phoneme_timestamps)} :
        \A i \in 1..Len(phoneme_timestamps) : phoneme_timestamps[i].end <= m

RECURSIVE GestureLoopAtLeastOnce(_, _, _, _, _)
GestureLoopAtLeastOnce(k, total_duration, intensity, gesture_config, timeline) ==
    LET gesture == [time |-> [num |-> k * total_duration * 10, den |-> 3 * intensity],
                    duration |-> gesture_config.duration,
                    type |-> gesture_config.animation,
                    intensity |-> gesture_config.intensity]
    IN  IF k = 0 \/ k * total_duration * 10 < total_duration * 3 * intensity
        THEN GestureLoopAtLeastOnce(k + 1, total_duration, intensity, gesture_config,
                                    Append(timeline, gesture))
        ELSE timeline

RECURSIVE GestureLoop(_, _, _, _, _)
\* while current_time < total_duration, with current_time = k * gesture_interval
\* and gesture_interval = total_duration / (intensity * 3); a time is the
\* fraction num/den
GestureLoop(k, total_duration, intensity, gesture_config, timeline) ==
    LET gesture == [time |-> [num |-> k * total_duration * 10, den |-> 3 * intensity],
                    duration |-> gesture_config.duration,
                    type |-> gesture_config.animation,
                    intensity |-> gesture_config.intensity]
    IN  IF k * total_duration * 10 < total_duration * 3 * intensity
        THEN GestureLoop(k + 1, total_duration, intensity, gesture_config,
                         Append(timeline, gesture))
        ELSE timeline

GestureTimelineAtLeastOne(gesture_tag, emotion, phoneme_timestamps) ==
    IF phoneme_timestamps # <<>> /\ ~AllWellFormed(phoneme_timestamps) THEN <<>>
    ELSE GestureLoopAtLeastOnce(0, IF phoneme_timestamps = <<>> THEN 0
                                   ELSE MaxEnd(phoneme_timestamps),
                                emotion_intensity(emotion), gesture_animations(gesture_tag), <<>>)

\* a timestamp that is no number makes max or the division raise, and the
\* except clause returns []
_generate_gesture_timeline(gesture_tag, emotion, phoneme_timestamps) ==
    IF phoneme_timestamps = <<>> THEN <<>>
    ELSE IF ~AllWellFormed(phoneme_timestamps) THEN <<>>
    ELSE GestureLoop(0, MaxEnd(phoneme_timestamps), emotion_intensity(emotion),
                     gesture_animations(gesture_tag), <<>>)

KeyPointsLastFirst(n) == <<n - 1, (2 * n) \div 3, n \div 3, 0>>

\* [0, len // 3, 2 * len // 3, len - 1]
key_points(n) == <<0, n \div 3, (2 * n) \div 3, n - 1>>

\* one expression per key point (every key point is below len), held for 2
\* seconds
_generate_emotion_expressions(emotion, phoneme_timestamps) ==
    IF phoneme_timestamps = <<>> THEN <<>>
    ELSE LET n == Len(phoneme_timestamps)
             emotion_config == emotion_expressions(emotion)
         IN  [i \in 1..4 |->
                [time |-> phoneme_timestamps[key_points(n)[i] + 1].start,
                 duration |-> 20,
                 facial_expression |-> emotion_config.facial_expression,
                 mouth_shape |-> emotion_config.mouth_shape]]

\* phoneme.lower()
Lower(phoneme) ==
    CASE phoneme = "A" -> "a"
      [] phoneme = "M" -> "m"
      [] OTHER -> phoneme

_phoneme_to_mouth_shape(phoneme) ==
    LET phoneme_lower == Lower(phoneme)
    IN  CASE phoneme_lower = "a" -> "open_wide"
          [] phoneme_lower = "e" -> "open_medium"
          [] phoneme_lower = "i" -> "smile"
          [] phoneme_lower = "o" -> "round"
          [] phoneme_lower = "u" -> "pucker"
          [] phoneme_lower \in {"b", "p", "m"} -> "closed"
          [] phoneme_lower \in {"f", "v"} -> "teeth_on_lip"
          [] phoneme_lower \in {"s", "z"} -> "narrow"
          [] phoneme_lower \in {"t", "d"} -> "tongue_tip"
          [] phoneme_lower \in {"k", "g"} -> "back_tongue"
          [] OTHER -> "neutral"

LipSyncFrameEndAsDuration(phoneme_data) ==
    [time |-> phoneme_data.start,
     duration |-> phoneme_data.end,
     phoneme |-> phoneme_data.phoneme,
     mouth_shape |-> _phoneme_to_mouth_shape(phoneme_data.phoneme),
     intensity |-> "0.8"]

\* lip_sync_frame: 'duration': end_time - start_time
LipSyncFrame(phoneme_data) ==
    [time |-> phoneme_data.start,
     duration |-> FloatSub(phoneme_data.end, phoneme_data.start),
     phoneme |-> phoneme_data.phoneme,
     mouth_shape |-> _phoneme_to_mouth_shape(phoneme_data.phoneme),
     intensity |-> "0.8"]

\* a timestamp that is no number makes the subtraction raise, and the except
\* clause returns []
_generate_lip_sync_data(phoneme_timestamps, capabilities) ==
    IF "lip_sync" \notin capabilities THEN <<>>
    ELSE IF ~AllWellFormed(phoneme_timestamps) THEN <<>>
    ELSE [i \in 1..Len(phoneme_timestamps) |-> LipSyncFrame(phoneme_timestamps[i])]

TemplateNames == {"teacher_1", "teacher_2", "tutor_1"}

\* self.avatar_templates.get(avatar_template, self.avatar_templates['teacher_1'])
avatar_templates(avatar_template) ==
    CASE avatar_template = "teacher_2" ->
            [name |-> "Prof. Alex", capabilities |-> {"gestures", "expressions", "lip_sync"}]
      [] avatar_template = "tutor_1" ->
            [name |-> "EduBot",
             capabilities |-> {"gestures", "expressions", "lip_sync", "eye_movement", "blinking"}]
      [] OTHER ->
            [name |-> "Dr. Sarah",
             capabilities |-> {"gestures", "expressions", "lip_sync", "eye_movement"}]

NormalDelayMs == 1500
FallbackDelayMs == 2000

LocalAvatarSameDelay(o, template) ==
    IF o = "ok"
    THEN [video_url |-> <<"http://localhost:8000/avatars/generated_", template.name, ".mp4">>,
          expected_delay_ms |-> NormalDelayMs]
    ELSE [video_url |-> None, expected_delay_ms |-> NormalDelayMs]

\* o: whether the local generation succeeds or raises inside the provider
_generate_local_avatar(o, template) ==
    IF o = "ok"
    THEN [video_url |-> <<"http://localhost:8000/avatars/generated_", template.name, ".mp4">>,
          expected_delay_ms |-> NormalDelayMs]
    ELSE [video_url |-> None, expected_delay_ms |-> FallbackDelayMs]

\* generate_avatar with the local provider, on its arguments: a missing
\* tts_output or response_data raises in the body and the except clause returns
\* the fallback
generate_avatar_from(tts_output, response_data, avatar_template, o) ==
    IF tts_output = NoDict \/ response_data = NoDict
    THEN [video_url |-> None, webrtc_token |-> None,
          expected_delay_ms |-> FallbackDelayMs, gesture_timeline |-> <<>>]
    ELSE LET template == avatar_templates(avatar_template)
             gesture_timeline == _generate_gesture_timeline(response_data.gesture_tag,
                                     response_data.emotion, tts_output.phoneme_timestamps)
             avatar_result == _generate_local_avatar(o, template)
         IN  [video_url |-> avatar_result.video_url, webrtc_token |-> None,
              expected_delay_ms |-> avatar_result.expected_delay_ms,
              gesture_timeline |-> gesture_timeline]

(***************************************************************************)
(* Calls of the avatar coordinator on arguments drawn from bounded sets.   *)
(***************************************************************************)
PhonemeTimes == {0, 1, 5, 66}

PhonemeSymbols == {"a", "M", "x"}

PhonemeDicts ==
    [phoneme : PhonemeSymbols, start : PhonemeTimes, end : PhonemeTimes, well_formed : {TRUE}]
    \cup {[phoneme |-> "a", start |-> 0, end |-> 5, well_formed |-> FALSE]}

\* n phonemes of equal length step, from 0 on
EvenPhonemes(n, step) ==
    [i \in 1..n |-> [phoneme |-> "a", start |-> (i - 1) * step, end |-> i * step,
                     well_formed |-> TRUE]]

PhonemeSeqs ==
    UNION {[1..n -> PhonemeDicts] : n \in 0..MaxPhonemes} \cup {EvenPhonemes(10, 5)}

CapabilitySets == {avatar_templates(t).capabilities : t \in TemplateNames} \cup {{"gestures"}}

\* one call per behaviour; the program's state is not touched
PureCall == fn = [name |-> "none"] /\ UNCHANGED <<store_vars, co_vars, pipe_vars>>

GenerateGestureTimeline ==
    /\ PureCall
    /\ \E g \in GestureTags, e \in Emotions, ps \in PhonemeSeqs :
          fn' = [name |-> "_generate_gesture_timeline", gesture_tag |-> g, emotion |-> e,
                 phoneme_timestamps |-> ps,
                 result |-> _generate_gesture_timeline(g, e, ps)]

GenerateEmotionExpressions ==
    /\ PureCall
    /\ \E e \in Emotions, ps \in PhonemeSeqs :
          fn' = [name |-> "_generate_emotion_expressions", emotion |-> e,
                 phoneme_timestamps |-> ps,
                 result |-> _generate_emotion_expressions(e, ps)]

GenerateLipSyncData ==
    /\ PureCall
    /\ \E ps \in PhonemeSeqs, caps \in CapabilitySets :
          fn' = [name |-> "_generate_lip_sync_data", phoneme_timestamps |-> ps,
                 capabilities |-> caps,
                 result |-> _generate_lip_sync_data(ps, caps)]

GenerateAvatar ==
    /\ PureCall
    /\ \E ps \in PhonemeSeqs, g \in {"affirmative", "pointing"}, e \in {"calm", "excited"},
          have_tts \in BOOLEAN, have_response \in BOOLEAN, o \in {"ok", "fail"} :
          LET tts_output == IF have_tts
                            THEN [audio_data |-> "speech", phoneme_timestamps |-> ps]
                            ELSE NoDict
              response_data == IF have_response THEN [emotion |-> e, gesture_tag |-> g]
                               ELSE NoDict
          IN  fn' = [name |-> "generate_avatar", tts_output |-> tts_output,
                     response_data |-> response_data, outcome |-> o,
                     result |-> generate_avatar_from(tts_output, response_data, "teacher_1", o)]

\* ---------------------------------------------------------------------------
\* The placement loop of _generate_gesture_timeline, one iteration at a time,
\* in the machine's arithmetic.  Times are whole numbers of the smallest
\* positive float (2^-1074 s): below 2^-1022 every float is such a number, sums
\* are exact and a quotient is rounded to the nearest one, ties to even.
\* ---------------------------------------------------------------------------
\* n / d rounded to the nearest whole number, ties to even
DivRound(n, d) ==
    LET q == n \div d
        r == n % d
    IN  IF 2 * r > d \/ (2 * r = d /\ q % 2 = 1) THEN q + 1 ELSE q

\* gesture_interval = total_duration / (intensity * 3)
GestureInterval(total_duration, intensity) == DivRound(total_duration * 10, 3 * intensity)

GestureLoopRunning == fn.name = "gesture_loop" /\ ~fn.returned

\* the call up to the loop, on phonemes whose greatest end is total_duration
GestureLoopEnter ==
    /\ PureCall
    /\ \E e \in Emotions, total_duration \in 0..MaxDuration :
          fn' = [name |-> "gesture_loop", emotion |-> e, total_duration |-> total_duration,
                 gesture_interval |-> GestureInterval(total_duration, emotion_intensity(e)),
                 current_time |-> 0, events |-> 0, returned |-> FALSE, raised |-> FALSE]

\* while current_time < total_duration: timeline.append(gesture);
\* current_time += gesture_interval
GestureLoopBody ==
    /\ GestureLoopRunning
    /\ fn.current_time < fn.total_duration
    /\ fn.events < MemoryEvents
    /\ fn' = [fn EXCEPT !.events = @ + 1, !.current_time = @ + fn.gesture_interval]
    /\ UNCHANGED <<store_vars, co_vars, pipe_vars>>

\* return timeline
GestureLoopExit ==
    /\ GestureLoopRunning
    /\ ~(fn.current_time < fn.total_duration)
    /\ fn' = [fn EXCEPT !.returned = TRUE]
    /\ UNCHANGED <<store_vars, co_vars, pipe_vars>>

\* the list has filled the memory: append raises MemoryError, and the call
\* ends without a timeline (the except clause returns [], or the error escapes
\* when logging it fails as well)
GestureLoopMemoryError ==
    /\ GestureLoopRunning
    /\ fn.current_time < fn.total_duration
    /\ fn.events = MemoryEvents
    /\ fn' = [fn EXCEPT !.returned = TRUE, !.raised = TRUE, !.events = 0]
    /\ UNCHANGED <<store_vars, co_vars, pipe_vars>>

\* ---------------------------------------------------------------------------
\* The performance pass over the three timelines
\* (AvatarCoordinator.optimize_for_performance).  An event is its time, in
\* tenths of a second; an event whose time is no number has well_formed FALSE.
\* ---------------------------------------------------------------------------
GestureThreshold == 10

\* list[::2], and the frames with i % 2 == 0
EveryOther(list) == [i \in 1..((Len(list) + 1) \div 2) |-> list[2 * i - 1]]

\* emotion.get('time', 0) % 2 == 0: the time is an even number of seconds
EvenTime(emotion) == emotion.time % 20 = 0

\* the gesture list is replaced before the loops run, so the except clause
\* returns the reduced gestures with the other two lists as they came
optimize_for_performance(gesture_timeline, emotion_data, lip_sync_data) ==
    LET reduced == IF Len(gesture_timeline) > GestureThreshold
                     THEN EveryOther(gesture_timeline)
                     ELSE gesture_timeline
    IN  IF \E i \in DOMAIN emotion_data : ~emotion_data[i].well_formed
          THEN [gesture_timeline |-> reduced, emotion_data |-> emotion_data,
                lip_sync_data |-> lip_sync_data]
          ELSE [gesture_timeline |-> reduced,
                emotion_data |-> SelectSeq(emotion_data, EvenTime),
                lip_sync_data |-> EveryOther(lip_sync_data)]

\* n events, one every step tenths of a second
Events(n, step) == [i \in 1..n |-> [time |-> (i - 1) * step, well_formed |-> TRUE]]

EmotionEvents ==
    [time : {0, 15, 20}, well_formed : {TRUE}] \cup {[time |-> 0, well_formed |-> FALSE]}

EmotionLists == UNION {[1..n -> EmotionEvents] : n \in 0..MaxEmotions}

OptimizeForPerformance ==
    /\ PureCall
    /\ \E g \in 0..MaxEvents, l \in 0..MaxEvents, emotion_data \in EmotionLists :
          fn' = [name |-> "optimize_for_performance",
                 gesture_timeline |-> Events(g, 5), emotion_data |-> emotion_data,
                 lip_sync_data |-> Events(l, 1),
                 result |-> optimize_for_performance(Events(g, 5), emotion_data,
                                                     Events(l, 1))]

\* ---------------------------------------------------------------------------
\* Language detection and intent / subject classification
\* (agents/language_detector.py, agents/intent_router.py).
\* A confidence is an integer number of 1/180: every score the code computes
\* from these tables is a whole number of them.
\* ---------------------------------------------------------------------------
ConfidenceOne == 180

ScriptBonus == 54

LatinBonus == 36

DefaultConfidence == 18

ContextPenalty == 36

\* the texts the classifiers are called on: a text is a set of these phrases,
\* joined by spaces; a character outside ASCII is written by its code point
Phrases ==
    {"what is the quadratic formula?",
     "the cat was here and the dogs were there, they have had what he has, it is what we are",
     "hello",
     "i'm stuck, i need help",
     "check my homework",
     "give me a quiz",
     "hindi sentence",
     "zzz",
     "U+00F1",
     "explain photosynthesis"}

\* <<phrase, s>>: s is a substring of the phrase in lower case
Substrings ==
    {<<"what is the quadratic formula?", "the">>, <<"what is the quadratic formula?", "is">>,
     <<"what is the quadratic formula?", "la">>, <<"what is the quadratic formula?", "a">>,
     <<"what is the quadratic formula?", "what">>,
     <<"the cat was here and the dogs were there, they have had what he has, it is what we are", "the">>,
     <<"the cat was here and the dogs were there, they have had what he has, it is what we are", "and">>,
     <<"the cat was here and the dogs were there, they have had what he has, it is what we are", "is">>,
     <<"the cat was here and the dogs were there, they have had what he has, it is what we are", "are">>,
     <<"the cat was here and the dogs were there, they have had what he has, it is what we are", "was">>,
     <<"the cat was here and the dogs were there, they have had what he has, it is what we are", "were">>,
     <<"the cat was here and the dogs were there, they have had what he has, it is what we are", "have">>,
     <<"the cat was here and the dogs were there, they have had what he has, it is what we are", "has">>,
     <<"the cat was here and the dogs were there, they have had what he has, it is what we are", "had">>,
     <<"the cat was here and the dogs were there, they have had what he has, it is what we are", "y">>,
     <<"the cat was here and the dogs were there, they have had what he has, it is what we are", "a">>,
     <<"the cat was here and the dogs were there, they have had what he has, it is what we are", "what">>,
     <<"hello", "el">>, <<"hello", "hello">>, <<"i'm stuck, i need help", "el">>,
     <<"i'm stuck, i need help", "help">>, <<"i'm stuck, i need help", "stuck">>,
     <<"check my homework", "y">>, <<"check my homework", "check">>,
     <<"check my homework", "homework">>, <<"give me a quiz", "a">>,
     <<"give me a quiz", "quiz">>, <<"hindi sentence", "U+0939 U+0948">>,
     <<"hindi sentence", "U+0939 U+0948 U+0902">>, <<"hindi sentence", "U+0925 U+093E">>,
     <<"hindi sentence", "U+0925 U+0947">>, <<"hindi sentence", "U+0915 U+0930">>,
     <<"hindi sentence", "U+0915 U+0947">>, <<"hindi sentence", "U+0915 U+094B">>,
     <<"hindi sentence", "U+0938 U+0947">>, <<"hindi sentence", "U+092E U+0947 U+0902">>,
     <<"explain photosynthesis", "the">>, <<"explain photosynthesis", "is">>,
     <<"explain photosynthesis", "la">>, <<"explain photosynthesis", "y">>,
     <<"explain photosynthesis", "a">>, <<"explain photosynthesis", "es">>,
     <<"explain photosynthesis", "explain">>}

\* <<phrase, r>>: re.search(r, phrase in lower case) finds a match
Searches ==
    {<<"what is the quadratic formula?", "what is">>,
     <<"what is the quadratic formula?", "quadratic">>, <<"hello", "hello">>,
     <<"i'm stuck, i need help", "i\\'m stuck">>, <<"i'm stuck, i need help", "i need help">>,
     <<"check my homework", "check my">>, <<"check my homework", "homework">>,
     <<"give me a quiz", "give me a quiz">>, <<"explain photosynthesis", "explain">>,
     <<"explain photosynthesis", "photosynthesis">>}

DevanagariPhrases == {"hindi sentence"}

GujaratiPhrases == {}

AsciiPhrases ==
    {"what is the quadratic formula?",
     "the cat was here and the dogs were there, they have had what he has, it is what we are",
     "hello", "i'm stuck, i need help", "check my homework", "give me a quiz", "zzz",
     "explain photosynthesis"}

\* LanguageDetector.language_patterns, in the order of the dict
LanguageOrder == <<"en", "hi", "gu", "es", "fr">>

language_patterns(lang) ==
    CASE lang = "en" ->
            [indicators |-> <<"the", "and", "is", "are", "was", "were", "have", "has", "had">>,
             script |-> "latin"]
      [] lang = "hi" ->
            [indicators |-> <<"U+0939 U+0948", "U+0939 U+0948 U+0902", "U+0925 U+093E", "U+0925 U+0947", "U+0925 U+093E", "U+0915 U+0930", "U+0915 U+0947", "U+0915 U+094B", "U+0938 U+0947", "U+092E U+0947 U+0902">>,
             script |-> "devanagari"]
      [] lang = "gu" ->
            [indicators |-> <<"U+0A9B U+0AC7", "U+0A9B U+0ACB", "U+0AB9 U+0AA4 U+0ABE", "U+0AB9 U+0AA4 U+0ACB", "U+0A95 U+0AB0", "U+0A95 U+0AC7", "U+0A95 U+0ACB", "U+0AB8 U+0AC7", "U+0AAE U+0ABE U+0A82">>,
             script |-> "gujarati"]
      [] lang = "es" ->
            [indicators |-> <<"el", "la", "de", "que", "y", "a", "en", "un", "es", "se">>,
             script |-> "latin"]
      [] lang = "fr" ->
            [indicators |-> <<"le", "la", "de", "que", "et", "U+00E0", "en", "un", "est", "se">>,
             script |-> "latin"]

\* IntentRouter.intent_patterns, in the order of the dict
IntentOrder == <<"ask", "check-homework", "start-quiz", "small-talk", "escalate">>

intent_patterns(intent) ==
    CASE intent = "ask" ->
            [keywords |->
                <<"what", "how", "why", "when", "where", "explain", "tell me", "show me", "help">>,
             patterns |->
                <<"what is", "how do", "why does", "explain", "tell me about", "show me how",
                  "help me understand", "can you explain", "what does.*mean", "how does.*work">>,
             priority |-> "normal"]
      [] intent = "check-homework" ->
            [keywords |->
                <<"check", "grade", "review", "homework", "assignment", "solution", "answer">>,
             patterns |->
                <<"check my", "grade my", "review my", "homework", "assignment", "is this correct",
                  "did i get this right", "check my work", "verify my answer">>,
             priority |-> "normal"]
      [] intent = "start-quiz" ->
            [keywords |->
                <<"quiz", "test", "practice", "questions", "exam", "challenge">>,
             patterns |->
                <<"give me a quiz", "quiz me on", "test my knowledge", "practice questions", "challenge me",
                  "create a quiz", "generate questions", "quiz time">>,
             priority |-> "normal"]
      [] intent = "small-talk" ->
            [keywords |->
                <<"hello", "hi", "how are you", "good morning", "good afternoon", "thanks", "thank you">>,
             patterns |->
                <<"hello", "hi there", "how are you", "good morning", "good afternoon", "thanks",
                  "thank you", "nice to meet you", "how\\'s it going">>,
             priority |-> "background"]
      [] intent = "escalate" ->
            [keywords |->
                <<"help", "stuck", "confused", "don't understand", "too hard", "difficult">>,
             patterns |->
                <<"i\\'m stuck", "i don\\'t understand", "this is too hard", "it\\'s too difficult",
                  "i need help", "can\\'t figure out", "i\\'m confused", "this doesn\\'t make sense">>,
             priority |-> "urgent"]

\* IntentRouter.subject_patterns, in the order of the dict
SubjectOrder == <<"math", "science", "programming", "history", "literature">>

subject_patterns(subject) ==
    CASE subject = "math" ->
            [keywords |->
                <<"math", "mathematics", "algebra", "geometry", "calculus", "equation", "solve", "calculate">>,
             patterns |->
                <<"\\d+\\s*[+\\-*/]\\s*\\d+", "equation", "solve for", "calculate", "geometry", "algebra",
                  "calculus", "derivative", "integral", "quadratic", "polynomial">>]
      [] subject = "science" ->
            [keywords |->
                <<"science", "physics", "chemistry", "biology", "experiment", "theory", "hypothesis">>,
             patterns |->
                <<"physics", "chemistry", "biology", "experiment", "theory", "hypothesis", "molecule",
                  "atom", "force", "energy", "evolution", "photosynthesis">>]
      [] subject = "programming" ->
            [keywords |->
                <<"programming", "code", "python", "javascript", "java", "function", "variable", "algorithm">>,
             patterns |->
                <<"programming", "coding", "python", "javascript", "java", "function", "variable",
                  "algorithm", "data structure", "loop", "if statement", "class", "object">>]
      [] subject = "history" ->
            [keywords |->
                <<"history", "historical", "war", "revolution", "ancient", "medieval", "timeline">>,
             patterns |->
                <<"history", "historical", "war", "revolution", "ancient", "medieval", "timeline", "century",
                  "empire", "civilization">>]
      [] subject = "literature" ->
            [keywords |->
                <<"literature", "book", "novel", "poetry", "author", "character", "theme", "plot">>,
             patterns |->
                <<"literature", "book", "novel", "poetry", "author", "character", "theme", "plot", "story",
                  "poem", "writing">>]

Texts == {text \in SUBSET Phrases : Cardinality(text) <= MaxPhrases}

\* "not text.strip()"
Blank(text) == text = {}

\* "s in text_lower"
Contains(text, s) == \E p \in text : <<p, s>> \in Substrings

\* "re.search(r, text_lower)"
Search(r, text) == \E p \in text : <<p, r>> \in Searches

\* the entries of a list that are substrings of the text, counted with their
\* repetitions
Found(list, text) == Cardinality({i \in DOMAIN list : Contains(text, list[i])})

\* the patterns of a list that match the text
Searched(list, text) == Cardinality({i \in DOMAIN list : Search(list[i], text)})

\* the keys of a dict, given in order
Keys(order) == {order[i] : i \in DOMAIN order}

\* max(scores, key=scores.get): the first key, in the order of the dict, whose
\* score no other key exceeds
FirstMax(order, scores) ==
    order[CHOOSE i \in DOMAIN order :
              \A j \in DOMAIN order :
                  /\ scores[order[j]] <= scores[order[i]]
                  /\ j < i => scores[order[j]] < scores[order[i]]]

\* the score of one language: the share of its indicators found in the text,
\* plus the bonus of its script; nothing bounds the sum
LanguageScore(text, lang) ==
    LET config == language_patterns(lang)
        total_indicators == Len(config.indicators)
        hits == Found(config.indicators, text)
        normalized == IF total_indicators > 0
                        THEN (hits * ConfidenceOne) \div total_indicators
                        ELSE hits * ConfidenceOne
        bonus == CASE config.script = "devanagari" ->
                        IF text \cap DevanagariPhrases # {} THEN ScriptBonus ELSE 0
                   [] config.script = "gujarati" ->
                        IF text \cap GujaratiPhrases # {} THEN ScriptBonus ELSE 0
                   [] config.script = "latin" ->
                        IF text \subseteq AsciiPhrases THEN LatinBonus ELSE 0
                   [] OTHER -> 0
    IN  normalized + bonus

detect_language(text, hint) ==
    IF Blank(text)
      THEN [language |-> IF hint # None THEN hint ELSE "en", confidence |-> 0]
      ELSE LET scores == [lang \in Keys(LanguageOrder) |-> LanguageScore(text, lang)]
               best_lang == FirstMax(LanguageOrder, scores)
               confidence == scores[best_lang]
           IN  IF hint # None /\ 10 * scores[hint] >= 8 * confidence
                 THEN [language |-> hint, confidence |-> scores[hint]]
                 ELSE [language |-> best_lang, confidence |-> confidence]

priority_weights(priority) ==
    CASE priority = "urgent" -> 3
      [] priority = "normal" -> 2
      [] priority = "background" -> 1
      [] OTHER -> 1

Min(a, b) == IF a <= b THEN a ELSE b

Max(a, b) == IF a >= b THEN a ELSE b

\* a context entry: its type and its content
ContextEntries ==
    [type : {"intent", "subject"}, content : {"check-homework", "start-quiz", "math", "science"}]
        \cup {[type |-> "user_input", content |-> "hello"]}

RECURSIVE SeqsUpTo(_, _)
SeqsUpTo(S, n) ==
    IF n = 0 THEN {<<>>}
    ELSE LET shorter == SeqsUpTo(S, n - 1)
         IN  shorter \cup {Append(s, x) : s \in {q \in shorter : Len(q) = n - 1}, x \in S}

\* "word in content.lower()"
ContentContains(content, word) ==
    <<content, word>> \in {<<"check-homework", "homework">>, <<"start-quiz", "quiz">>}

Contexts == SeqsUpTo(ContextEntries, MaxContext)

\* context[-5:]
LastFive(context) ==
    IF Len(context) <= 5 THEN context ELSE SubSeq(context, Len(context) - 4, Len(context))

\* the contents of the recent entries of one type, in order
Recent(context, type) ==
    SelectSeq(LastFive(context), LAMBDA entry : entry.type = type)

_analyze_context_for_intent(context) ==
    LET recent_intents == Recent(context, "intent")
        Mentions(word) == \E i \in DOMAIN recent_intents :
                              ContentContains(recent_intents[i].content, word)
    IN  IF context = <<>> THEN None
        ELSE IF Mentions("homework") THEN "check-homework"
        ELSE IF Mentions("quiz") THEN "start-quiz"
        ELSE None

_analyze_context_for_subject(context) ==
    LET recent_subjects == Recent(context, "subject")
        Count(i) == Cardinality({j \in DOMAIN recent_subjects :
                                    recent_subjects[j].content = recent_subjects[i].content})
        first == CHOOSE i \in DOMAIN recent_subjects :
                    \A j \in DOMAIN recent_subjects :
                        /\ Count(j) <= Count(i)
                        /\ j < i => Count(j) < Count(i)
        most_frequent == recent_subjects[first].content
    IN  IF context = <<>> \/ recent_subjects = <<>> THEN None
        ELSE IF most_frequent \in {"math", "science", "programming", "history",
                                   "literature", "general"}
               THEN most_frequent
               ELSE None

\* the penalty of a context that hints at another answer
Penalised(confidence, context_hint, best) ==
    IF context_hint # None /\ context_hint # best
      THEN Max(confidence - ContextPenalty, DefaultConfidence)
      ELSE confidence

IntentScore(text, intent) ==
    LET config == intent_patterns(intent)
        keyword_matches == Found(config.keywords, text)
        pattern_matches == Searched(config.patterns, text)
    IN  (keyword_matches * 54 + pattern_matches * 90) * priority_weights(config.priority)

classify_intent(text, context) ==
    IF Blank(text)
      THEN [intent |-> "ask", confidence |-> 0, priority |-> "normal"]
      ELSE LET intent_scores == [intent \in Keys(IntentOrder) |-> IntentScore(text, intent)]
               none == \A intent \in Keys(IntentOrder) : intent_scores[intent] = 0
               best_intent == IF none THEN "ask" ELSE FirstMax(IntentOrder, intent_scores)
               confidence == IF none THEN DefaultConfidence
                             ELSE Min(intent_scores[best_intent] \div 2, ConfidenceOne)
               priority == IF none THEN "normal" ELSE intent_patterns(best_intent).priority
               context_hint == _analyze_context_for_intent(context)
           IN  [intent |-> best_intent,
                confidence |-> Penalised(confidence, context_hint, best_intent),
                priority |-> priority]

SubjectScore(text, subject) ==
    LET config == subject_patterns(subject)
        keyword_matches == Found(config.keywords, text)
        pattern_matches == Searched(config.patterns, text)
    IN  keyword_matches * 72 + pattern_matches * 108

classify_subject(text, context) ==
    IF Blank(text)
      THEN [subject |-> "general", confidence |-> 0]
      ELSE LET subject_scores == [subject \in Keys(SubjectOrder) |-> SubjectScore(text, subject)]
               none == \A subject \in Keys(SubjectOrder) : subject_scores[subject] = 0
               best_subject == IF none THEN "general" ELSE FirstMax(SubjectOrder, subject_scores)
               confidence == IF none THEN DefaultConfidence
                             ELSE Min(subject_scores[best_subject] \div 2, ConfidenceOne)
               context_hint == _analyze_context_for_subject(context)
           IN  [subject |-> best_subject,
                confidence |-> Penalised(confidence, context_hint, best_subject)]

Hints == Keys(LanguageOrder) \cup {None}

DetectLanguage ==
    /\ PureCall
    /\ \E text \in Texts, hint \in Hints :
          fn' = [name |-> "detect_language", text |-> text, hint |-> hint,
                 result |-> detect_language(text, hint)]

ClassifyIntent ==
    /\ PureCall
    /\ \E text \in Texts, context \in Contexts :
          fn' = [name |-> "classify_intent", text |-> text, context |-> context,
                 result |-> classify_intent(text, context)]

ClassifySubject ==
    /\ PureCall
    /\ \E text \in Texts, context \in Contexts :
          fn' = [name |-> "classify_subject", text |-> text, context |-> context,
                 result |-> classify_subject(text, context)]

EmptyMap == [x \in {} |-> None]

NoCall == [name |-> "none"]

Init ==
    /\ now = 0
    /\ sessions = EmptyMap
    /\ context_windows = EmptyMap
    /\ rate_limits = EmptyMap
    /\ ret = NoRet
    /\ ctx_hist = [id \in SessionIds |-> <<>>]
    /\ n_appends = 0
    /\ win = [id \in SessionIds |-> [start |-> 0, admits |-> 0]]
    /\ co = [c \in Callers |-> IdleCo]
    /\ running = None
    /\ pc = "idle"
    /\ st = BlankState
    /\ req = [kind |-> None, session_id |-> None]
    /\ resp = NoResp
    /\ trace = <<>>
    /\ err_at = 0
    /\ faults = {}
    /\ snap = [t |-> 0, sessions |-> EmptyMap, context_windows |-> EmptyMap,
               rate_limits |-> EmptyMap]
    /\ fn = NoCall

NextCtx == CreateSession \/ AddToContext \/ Tick(CtxMaxTime)

SpecCtx == Init /\ [][NextCtx]_vars

NextRate == CreateSession \/ CheckRateLimitCall \/ Tick(MaxTime)

SpecRate == Init /\ [][NextRate]_vars

NextConc == CreateShared \/ CoBegin \/ CoReset \/ CoCheck \/ CoIncr \/ Tick(MaxTime)

SpecConc == Init /\ [][NextConc]_vars

NextPipe == ProcessText \/ ProcessAudio \/ ainvoke_step \/ respond \/ Tick(CtxMaxTime)

SpecPipe == Init /\ [][NextPipe]_vars

NextLookup == ProcessText \/ ProcessAudio \/ ainvoke_step \/ respond \/ GetSession

SpecLookup == Init /\ [][NextLookup]_vars

NextIso == CreateSession \/ SomeAppends \/ SomeChecks \/ Tick(MaxTime)

SpecIso == Init /\ [][NextIso]_vars

NextAvatar ==
    \/ GenerateGestureTimeline \/ GenerateEmotionExpressions \/ GenerateLipSyncData
    \/ GenerateAvatar

SpecAvatar == Init /\ [][NextAvatar]_vars

\* reads of the store between creations, appends, rate checks and ticks
NextConfig ==
    \/ CreateSession \/ FewAppends \/ SomeChecks \/ SomeConfigs \/ GetSession \/ GetContext
    \/ Tick(MaxTime)

SpecConfig == Init /\ [][NextConfig]_vars

\* the gesture placement loop on durations of a few float units
NextGesture ==
    GestureLoopEnter \/ GestureLoopBody \/ GestureLoopExit \/ GestureLoopMemoryError

SpecGesture == Init /\ [][NextGesture]_vars

\* the performance pass, called once on any three timelines
NextOptimize == OptimizeForPerformance

SpecOptimize == Init /\ [][NextOptimize]_vars

\* the classifiers, each called once on any text with any hint or context
NextClassify == DetectLanguage \/ ClassifyIntent \/ ClassifySubject

SpecClassify == Init /\ [][NextClassify]_vars

NextSweep ==
    \/ CreateSession \/ UpdateSessionActivity \/ FewAppends \/ FewChecks \/ Sweep
    \/ HourTick(SweepMaxTime)

SpecSweep == Init /\ [][NextSweep]_vars

(***************************************************************************)
(* Claims                                                                  *)
(***************************************************************************)
\* the last n insertions of history h, oldest first
MostRecent(h, n) ==
    LET k == IF Len(h) < n THEN Len(h) ELSE n
    IN  [i \in 1..k |-> h[Len(h) - k + i]]

Chronological(entries) ==
    \A i, j \in 1..Len(entries) : i <= j => entries[i].timestamp <= entries[j].timestamp

\* C3: after any sequence of AppendContext calls a session's context window
\* holds at most max_size (10) entries, and they are exactly the most recent
\* max_size insertions, in insertion (chronological) order.
C3_SlidingWindow ==
    \A id \in DOMAIN context_windows :
        LET entries == context_windows[id].entries
        IN  /\ Len(entries) <= max_size
            /\ entries = MostRecent(ctx_hist[id], max_size)
            /\ Chronological(entries)

\* C3 witness: an append on a session that has already evicted entries
C3_Evicted ==
    \E id \in DOMAIN context_windows :
        /\ Len(ctx_hist[id]) > max_size + 1
        /\ Len(context_windows[id].entries) = max_size
        /\ ret = [op |-> "add_to_context", sid |-> id, val |-> TRUE]
        /\ context_windows[id].entries[1].timestamp < now

\* C4: in every fixed rate-limit window of a session at most max_requests
\* calls are admitted, and a call is refused only when the window it falls
\* in has already admitted max_requests calls (so that after a reset a
\* fresh max_requests calls are admitted).
C4_WindowAdmits ==
    /\ \A id \in DOMAIN rate_limits : win[id].admits <= max_requests
    /\ (ret.op = "check_rate_limit" /\ ret.sid \in DOMAIN rate_limits /\ ret.val = FALSE)
           => win[ret.sid].admits = max_requests

\* C4 witness: a call refused in a window that began with a reset
C4_RefusedAfterReset ==
    /\ ret.op = "check_rate_limit"
    /\ ret.sid \in DOMAIN rate_limits
    /\ ret.val = FALSE
    /\ win[ret.sid].start > sessions[ret.sid].created_at
    /\ rate_limits[ret.sid].requests = max_requests

MidCall(id) == \E c \in Callers : co[c].pc # "idle" /\ co[c].sid = id

\* C9: under any interleaving of coroutines calling check_rate_limit on the
\* same session, the counter equals the number of calls admitted in the
\* current window whenever no call is in progress, and the number admitted
\* in a window never exceeds max_requests.
C9_AtomicCheckIncrement ==
    \A id \in DOMAIN rate_limits :
        /\ win[id].admits <= max_requests
        /\ rate_limits[id].requests <= max_requests
        /\ ~MidCall(id) => rate_limits[id].requests = win[id].admits

\* C9 witness: both coroutines have called on the same session, the window
\* is full and the last call was refused
C9_BothCalled ==
    \E id \in DOMAIN rate_limits :
        /\ \A c \in Callers : co[c].pc = "idle" /\ co[c].sid = id
        /\ rate_limits[id].requests = max_requests
        /\ ret = [op |-> "check_rate_limit", sid |-> id, val |-> FALSE]

Last(s) == s[Len(s)]

RawErrors == {ErrNoAudio, ErrNoTranscript, ErrNoText, ErrNoTeaching, ErrNoSynthesized,
              ErrMissingTTS, ErrRecognizer, ErrValidation}

Returned == pc = "idle" /\ resp # NoResp

\* C1: once a stage has set error, the only node that runs afterwards is the
\* error handler, and the run ends there with the fixed apology as the final
\* response text.
C1_ErrorShortCircuits ==
    /\ err_at > 0 => \A i \in (err_at + 1)..Len(trace) : trace[i] = "error_handler"
    /\ (pc = "END" /\ st.error # None) =>
          /\ Last(trace) = "error_handler"
          /\ st.final_response # NoDict
          /\ st.final_response.text = ApologyText

\* C2: on a text request the Transcribe stage sets no error, and a text
\* request whose stages all succeed ends with the error field unset.
C2_TextSkipsTranscribe ==
    req.kind = "text" =>
        /\ st.error # ErrNoAudio
        /\ (pc = "END" /\ st.transcript = "question" /\ faults = {}) => st.error = None

\* C5: a run ends either in Compose (no error, after the last stage) or in the
\* error handler, with a final response in both cases, and the caller is
\* given a response.
C5_TerminalStates ==
    /\ pc = "END" =>
          /\ st.final_response # NoDict
          /\ \/ st.error = None /\ Last(trace) = "avatar_coordinator"
             \/ st.error # None /\ Last(trace) = "error_handler"
    /\ Returned => resp.status = 200

\* C6: nothing given to the caller carries a stage's raw error message.
C6_NoRawErrorToCaller ==
    Returned => /\ resp.detail \notin RawErrors
                /\ (st.error # None => resp.text = ApologyText)

PipelineOrder ==
    <<"session_manager", "stt_agent", "language_detector", "intent_router",
      "teaching_agent", "response_synthesizer", "tts_agent", "avatar_coordinator">>

\* C7: the nodes a request has executed are always a prefix of the fixed stage
\* order, so every stage runs at most once and none is re-entered or retried.
C7_FixedOrderOnce ==
    /\ Len(trace) <= Len(PipelineOrder)
    /\ \A i \in 1..Len(trace) : trace[i] = PipelineOrder[i]
    /\ (pc \in Nodes => pc = PipelineOrder[Len(trace) + 1])

\* C7 witness: a run in which a stage failed has ended with every stage run once
C7_FailedRunEnded ==
    /\ pc = "END"
    /\ err_at > 0
    /\ "recognizer" \in faults
    /\ trace = PipelineOrder

\* C8: a request processed for a session that existed when it began has, by
\* the time it is answered, updated the session's last activity, appended to
\* its context window and consumed one unit of its rate limit.
C8_TurnMutatesSession ==
    (Returned /\ req.session_id \in DOMAIN snap.sessions) =>
        LET id == req.session_id
        IN  /\ id \in DOMAIN sessions
            /\ sessions[id].last_activity >= snap.t
            /\ context_windows[id].entries # snap.context_windows[id].entries
            /\ \/ rate_limits[id] # snap.rate_limits[id]
               \/ snap.rate_limits[id].requests >= max_requests

\* C10: when the recognizer, the LLM or the synthesizer fails during a
\* request, the request state's error field is set and the caller does not
\* get a success response.
C10_CollaboratorFailureSurfaces ==
    (faults \cap {"recognizer", "llm", "synthesizer"} # {}) =>
        /\ pc = "END" => st.error # None
        /\ Returned => (st.error # None /\ resp.status # 200)


(***************************************************************************)
(* The reclamation sweep.                                                  *)
(***************************************************************************)
SweptAtAgeZero ==
    /\ ret.op = "cleanup_old_sessions"
    /\ ret.max_age_hours = 0
    /\ \A id \in DOMAIN snap.sessions : snap.sessions[id].last_activity <= snap.t

\* C11, as stated: a sweep with maximum age 0 over a store whose sessions all
\* have a last activity that is not in the future (the current time included)
\* removes every session and returns the size the store had.
C11_SweepZeroRemovesAll ==
    SweptAtAgeZero =>
        /\ DOMAIN sessions = {}
        /\ ret.val = Cardinality(DOMAIN snap.sessions)

\* C11, amended: such a sweep removes the sessions whose last activity is
\* strictly before the current time and returns their number; a session whose
\* last activity equals the current time is kept. With every last activity
\* strictly in the past it empties the store and returns its former size.
C11_SweepZeroRemovesPast ==
    SweptAtAgeZero =>
        LET past == {id \in DOMAIN snap.sessions : snap.sessions[id].last_activity < snap.t}
        IN  /\ DOMAIN sessions = DOMAIN snap.sessions \ past
            /\ ret.val = Cardinality(past)
            /\ (past = DOMAIN snap.sessions =>
                    DOMAIN sessions = {} /\ ret.val = Cardinality(DOMAIN snap.sessions))

\* C11 witness: a sweep with maximum age 0 emptied a store of two sessions
C11_SweptTwo ==
    /\ SweptAtAgeZero
    /\ Cardinality(DOMAIN snap.sessions) = 2
    /\ DOMAIN sessions = {}
    /\ ret.val = 2

\* C12: a sweep removes exactly the sessions whose last activity predates
\* now minus the maximum age, from all three maps, and returns how many; every
\* other session keeps its attributes, context window and rate-limit counter.
C12_SweepExact ==
    ret.op = "cleanup_old_sessions" =>
        LET cutoff == snap.t - ret.max_age_hours * SecondsPerHour
            old == {id \in DOMAIN snap.sessions : snap.sessions[id].last_activity < cutoff}
            kept == DOMAIN snap.sessions \ old
        IN  /\ ret.val = Cardinality(old)
            /\ DOMAIN sessions = kept
            /\ DOMAIN context_windows = kept
            /\ DOMAIN rate_limits = kept
            /\ \A id \in kept :
                  /\ sessions[id] = snap.sessions[id]
                  /\ context_windows[id] = snap.context_windows[id]
                  /\ rate_limits[id] = snap.rate_limits[id]

\* C12 witness: a sweep with a positive maximum age removed one session and
\* kept another that holds a context entry
C12_SweptOneKeptOne ==
    /\ ret.op = "cleanup_old_sessions"
    /\ ret.max_age_hours > 0
    /\ ret.val = 1
    /\ \E id \in DOMAIN sessions : Len(context_windows[id].entries) > 0

(***************************************************************************)
(* add_to_context and unknown sessions.                                    *)
(***************************************************************************)
\* a step that is a call of add_to_context
AddToContextStep ==
    /\ ret'.op = "add_to_context"
    /\ (ret' # ret \/ n_appends' # n_appends)

\* C13: add_to_context on an id that has no record returns false and leaves
\* sessions, context windows and rate-limit counters as they were; on a known
\* session it returns true.
C13_AppendUnknownIsNoop ==
    [][AddToContextStep =>
          IF ret'.sid \in DOMAIN sessions
          THEN ret'.val = TRUE
          ELSE /\ ret'.val = FALSE
               /\ UNCHANGED <<sessions, context_windows, rate_limits>>]_vars

\* C13 witness: add_to_context has just returned false for an unknown id while
\* another session holds entries
C13_RefusedUnknown ==
    /\ ret.op = "add_to_context"
    /\ ret.val = FALSE
    /\ ret.sid \notin DOMAIN sessions
    /\ \E id \in DOMAIN sessions : Len(context_windows[id].entries) > 0

(***************************************************************************)
(* Requests and lookups that name a session without a record.              *)
(***************************************************************************)
\* the request in flight names a session id that had no record when it began
NamesUnknownSession ==
    /\ pc # "idle"
    /\ ~Falsy(req.session_id)
    /\ req.session_id \notin DOMAIN snap.sessions

\* C14: the session node gives a request that names an unknown session an
\* empty context and sets no error, and get_session on an id without a record
\* reports not found, never a session with an empty context.
C14_UnknownSessionNonFatal ==
    /\ (NamesUnknownSession /\ Len(trace) >= 1) =>
          /\ st.context = <<>>
          /\ st.session_id = req.session_id
          /\ err_at # 1
          /\ (Len(trace) = 1 => st.error = None)
    /\ (ret.op = "get_session" /\ ret.sid \notin DOMAIN sessions) => ret.val = NotFound

\* C14 witness: a request naming an unknown session has passed the session
\* node while the store holds another session, and get_session on the id it
\* names has reported not found
C14_UnknownResolvedAndLookedUp ==
    /\ NamesUnknownSession
    /\ Len(trace) >= 1
    /\ DOMAIN sessions # {}
    /\ ret.op = "get_session"
    /\ ret.sid = req.session_id
    /\ ret.val = NotFound

(***************************************************************************)
(* The avatar coordinator.                                                 *)
(***************************************************************************)
AvatarCalled == fn.name = "generate_avatar"

\* the body of generate_avatar raised: an argument was missing
BodyRaised == fn.tts_output = NoDict \/ fn.response_data = NoDict

\* the provider met an internal error
ProviderFailed == ~BodyRaised /\ fn.outcome = "fail"

\* a timeline generator met an internal error: a timestamp that is no number
TimelineFailed ==
    /\ ~BodyRaised
    /\ fn.tts_output.phoneme_timestamps # <<>>
    /\ ~AllWellFormed(fn.tts_output.phoneme_timestamps)

NullAndSlower ==
    /\ fn.result.video_url = None
    /\ fn.result.expected_delay_ms > NormalDelayMs

TimelineCalls ==
    {"_generate_gesture_timeline", "_generate_emotion_expressions", "_generate_lip_sync_data"}

\* C18: on an empty phoneme-timestamp sequence the gesture, expression and
\* lip-sync generators each return the empty sequence, whatever the emotion,
\* the gesture tag and the capabilities.
C18_EmptyInEmptyOut ==
    (fn.name \in TimelineCalls /\ fn.phoneme_timestamps = <<>>) => fn.result = <<>>

\* C18 witness: the gesture generator was called with no phonemes and an
\* emotion of the highest intensity
C18_GestureOnEmpty ==
    /\ fn.name = "_generate_gesture_timeline"
    /\ fn.phoneme_timestamps = <<>>
    /\ fn.emotion = "excited"
    /\ fn.result = <<>>

LipSyncCalled ==
    /\ fn.name = "_generate_lip_sync_data"
    /\ "lip_sync" \in fn.capabilities
    /\ AllWellFormed(fn.phoneme_timestamps)

\* the phonemes are in order: each ends no earlier than it starts and starts
\* no earlier than the one before it ends
Ordered(ps) ==
    /\ \A i \in 1..Len(ps) : ps[i].start <= ps[i].end
    /\ \A i \in 1..(Len(ps) - 1) : ps[i].end <= ps[i + 1].start

OneFramePerPhoneme(ps, frames) ==
    /\ Len(frames) = Len(ps)
    /\ \A i \in 1..Len(ps) :
          /\ frames[i].phoneme = ps[i].phoneme
          /\ frames[i].time = ps[i].start
          /\ frames[i].duration = FloatSub(ps[i].end, ps[i].start)
    /\ Ordered(ps) => \A i \in 1..(Len(ps) - 1) : frames[i].time <= frames[i + 1].time

\* C19, as stated: one frame per phoneme, in order, with start = phoneme start
\* and duration = end - start, so that for ordered phonemes the starts are
\* non-decreasing and the last frame's start plus its duration is the end of
\* the last phoneme.
C19_LastFrameEndsAtEnd ==
    LipSyncCalled =>
        LET ps == fn.phoneme_timestamps
            frames == fn.result
        IN  /\ OneFramePerPhoneme(ps, frames)
            /\ (Ordered(ps) /\ ps # <<>>) =>
                  FloatAdd(frames[Len(ps)].time, frames[Len(ps)].duration) = ps[Len(ps)].end

\* C19, amended: one frame per phoneme, in order, with start = phoneme start
\* and duration = the float difference end - start; for ordered phonemes the
\* starts are non-decreasing, and the last frame's start plus its duration is
\* the end of the last phoneme whenever that difference is exact, as it is for
\* 10 phonemes of 0.5 s from 0.0 to 5.0.
C19_OneFramePerPhoneme ==
    LipSyncCalled =>
        LET ps == fn.phoneme_timestamps
            frames == fn.result
            n == Len(ps)
        IN  /\ OneFramePerPhoneme(ps, frames)
            /\ (Ordered(ps) /\ ps # <<>> /\ frames[n].duration = ps[n].end - ps[n].start) =>
                  FloatAdd(frames[n].time, frames[n].duration) = ps[n].end
            /\ ps = EvenPhonemes(10, 5) =>
                  /\ Len(frames) = 10
                  /\ FloatAdd(frames[10].time, frames[10].duration) = 50

\* C19 witness: the lip-sync data of 10 phonemes from 0.0 to 5.0
C19_TenFrames ==
    /\ LipSyncCalled
    /\ fn.phoneme_timestamps = EvenPhonemes(10, 5)
    /\ Len(fn.result) = 10
    /\ fn.result[10].time + fn.result[10].duration = 50

(***************************************************************************)
(* Sessions are independent of one another.                                *)
(***************************************************************************)
\* C16: add_to_context and check_rate_limit on one session leave the
\* attributes, the context window and the rate-limit counter of every other
\* session as they were, in whatever order the requests on the sessions come.
C16_SessionsIsolated ==
    [][ret'.op \in {"add_to_context", "check_rate_limit"} =>
          \A other \in DOMAIN sessions \ {ret'.sid} :
              /\ other \in DOMAIN sessions'
              /\ sessions'[other] = sessions[other]
              /\ context_windows'[other] = context_windows[other]
              /\ rate_limits'[other] = rate_limits[other]]_vars

\* C16 witness: two sessions, each with context entries and admitted requests
\* of its own, after an operation on one of them
C16_BothSessionsUsed ==
    /\ DOMAIN sessions = SessionIds
    /\ ret.op \in {"add_to_context", "check_rate_limit"}
    /\ \A id \in SessionIds :
          /\ Len(context_windows[id].entries) > 0
          /\ rate_limits[id].requests > 0
    /\ \E a, b \in SessionIds : rate_limits[a].requests # rate_limits[b].requests

(***************************************************************************)
(* The rate-limit window reset.                                            *)
(***************************************************************************)
\* a step in which check_rate_limit(id) has changed the counter of id
CheckStep(id) ==
    /\ id \in DOMAIN rate_limits
    /\ ret'.op = "check_rate_limit"
    /\ ret'.sid = id
    /\ rate_limits'[id] # rate_limits[id]

\* C20, as stated: a check made after the current time has passed the reset
\* timestamp resets the count to zero (the check itself is then counted) and
\* advances the reset timestamp by exactly one window length from its
\* previous value.
C20_ResetAdvancesByWindow ==
    [][\A id \in SessionIds :
          (CheckStep(id) /\ now > rate_limits[id].reset_time) =>
              /\ rate_limits'[id].requests = 1
              /\ rate_limits'[id].reset_time = rate_limits[id].reset_time + WindowSeconds]_vars

\* C20, amended: a check made when the current time has reached or passed the
\* reset timestamp resets the count to zero (the check itself is then counted)
\* and sets the reset timestamp to the current time plus one window length:
\* it advances by at least one window length, and by exactly one only when
\* the check comes at the reset timestamp itself.
C20_ResetRestartsFromNow ==
    [][\A id \in SessionIds :
          (CheckStep(id) /\ now >= rate_limits[id].reset_time) =>
              /\ rate_limits'[id].requests = 1
              /\ rate_limits'[id].reset_time = now + WindowSeconds
              /\ rate_limits'[id].reset_time >= rate_limits[id].reset_time + WindowSeconds
              /\ (rate_limits'[id].reset_time = rate_limits[id].reset_time + WindowSeconds
                    <=> now = rate_limits[id].reset_time)]_vars

\* C20 witness: a check that came strictly after the end of the session's
\* first window has just reset the counter
C20_ResetAfterWindowPassed ==
    /\ ret.op = "check_rate_limit"
    /\ ret.sid \in DOMAIN rate_limits
    /\ now > sessions[ret.sid].created_at + WindowSeconds
    /\ rate_limits[ret.sid].requests = 1
    /\ rate_limits[ret.sid].reset_time = now + WindowSeconds

\* a classifier has returned
ClassifierCalled == fn.name \in {"detect_language", "classify_intent", "classify_subject"}

\* C17: every confidence a classifier returns (language detection, intent
\* classification, subject classification) lies in [0, 1], whatever the text,
\* the hint and the context.
C17_ConfidenceInUnitInterval ==
    ClassifierCalled => fn.result.confidence \in 0..ConfidenceOne

\* every language, every intent, every subject scores zero for the text
NoLanguageScores(text) == \A lang \in Keys(LanguageOrder) : LanguageScore(text, lang) = 0

NoIntentScores(text) == \A intent \in Keys(IntentOrder) : IntentScore(text, intent) = 0

NoSubjectScores(text) == \A subject \in Keys(SubjectOrder) : SubjectScore(text, subject) = 0

\* C21: when every category scores zero for a (non-blank) text, each classifier
\* returns its default label (ASK, GENERAL, the hinted language) with the fixed
\* low confidence 0.1, never confidence zero.
C21_ZeroScoresGiveDefault ==
    /\ (fn.name = "classify_intent" /\ ~Blank(fn.text) /\ NoIntentScores(fn.text))
          => fn.result.intent = "ask" /\ fn.result.confidence = DefaultConfidence
    /\ (fn.name = "classify_subject" /\ ~Blank(fn.text) /\ NoSubjectScores(fn.text))
          => fn.result.subject = "general" /\ fn.result.confidence = DefaultConfidence
    /\ (fn.name = "detect_language" /\ ~Blank(fn.text) /\ NoLanguageScores(fn.text)
             /\ fn.hint # None)
          => fn.result.language = fn.hint /\ fn.result.confidence = DefaultConfidence

\* the start times of the phonemes are numbers and never go back
StartsNonDecreasing(ps) ==
    /\ AllWellFormed(ps)
    /\ \A i \in 1..(Len(ps) - 1) : ps[i].start <= ps[i + 1].start

\* the event times of a timeline never go back; a gesture time is a fraction
TimesNonDecreasing(name, timeline) ==
    \A i \in 1..(Len(timeline) - 1) :
        IF name = "_generate_gesture_timeline"
          THEN timeline[i].time.num * timeline[i + 1].time.den
                  <= timeline[i + 1].time.num * timeline[i].time.den
          ELSE timeline[i].time <= timeline[i + 1].time

\* C23: for every phoneme sequence whose start times are non-decreasing, each of
\* the three generated timelines (gesture, expression, lip-sync) is
\* non-decreasing in event start time.
C23_TimelinesNonDecreasing ==
    (fn.name \in TimelineCalls /\ StartsNonDecreasing(fn.phoneme_timestamps))
        => TimesNonDecreasing(fn.name, fn.result)

\* C23 witness: the four expressions of 10 phonemes from 0.0 to 5.0, at the
\* phonemes 0, 3, 6 and 9
C23_ExpressionsAtKeyPoints ==
    /\ fn.name = "_generate_emotion_expressions"
    /\ fn.phoneme_timestamps = EvenPhonemes(10, 5)
    /\ StartsNonDecreasing(fn.phoneme_timestamps)
    /\ [i \in 1..4 |-> fn.result[i].time] = <<0, 15, 30, 45>>

\* what the pass may do to one timeline: every other event above the threshold,
\* nothing at or below it
ReducedAboveThreshold(before, after) ==
    after = IF Len(before) > GestureThreshold THEN EveryOther(before) ELSE before

\* C24: the performance pass downsamples a timeline (gesture, expression or
\* lip-sync) only when it exceeds the size threshold, and then retains every
\* other event in order; a timeline at or below the threshold is returned
\* unchanged.
C24_DownsampleOnlyAboveThreshold ==
    fn.name = "optimize_for_performance" =>
        /\ ReducedAboveThreshold(fn.gesture_timeline, fn.result.gesture_timeline)
        /\ ReducedAboveThreshold(fn.emotion_data, fn.result.emotion_data)
        /\ ReducedAboveThreshold(fn.lip_sync_data, fn.result.lip_sync_data)

\* C25: in every reachable state of the session store, after any sequence of
\* create_session, add_to_context, check_rate_limit and cleanup_old_sessions
\* calls, the three maps hold exactly the same session ids.
C25_SameSessionIds ==
    /\ DOMAIN sessions = DOMAIN context_windows
    /\ DOMAIN sessions = DOMAIN rate_limits

\* C25 witness: a session was created after a sweep had removed one, next to a
\* session that the sweep kept
C25_CreatedAfterSweep ==
    /\ ret.op = "create_session"
    /\ ret.sid \in DOMAIN snap.sessions
    /\ Cardinality(DOMAIN sessions) = 2
    /\ DOMAIN rate_limits = DOMAIN sessions

(***************************************************************************)
(* Accumulation of the request state.                                      *)
(***************************************************************************)
\* a key of the state dict holds a value
Populated(state, k) == state[k] # BlankState[k]

UpstreamOutputs == {"teaching_response", "synthesized_response", "tts_output", "avatar_output"}

\* C26: in every state of a pipeline run, if final_response is populated then
\* teaching_response, synthesized_response, tts_output and avatar_output are all
\* populated, and no stage clears a field an earlier stage wrote.
C26_FieldsAccumulate ==
    [][/\ Populated(st', "final_response") =>
              \A k \in UpstreamOutputs : Populated(st', k)
       /\ pc \in Nodes =>
              \A k \in DOMAIN st : Populated(st, k) => Populated(st', k)]_vars

\* C26 witness: a run has ended with the composed response and the four
\* outputs before it, the synthesizer having failed on the way
C26_ComposedAfterAllStages ==
    /\ pc = "END"
    /\ Populated(st, "final_response")
    /\ \A k \in UpstreamOutputs : Populated(st, k)
    /\ "synthesizer" \in faults
    /\ st.tts_output.audio_data = ""

\* C27: within one pipeline run the error field is never cleared: once a stage
\* has written error it stays set in every later state of the run, so
\* process_text and process_audio raise to the caller (status 500 with the
\* error as detail) instead of returning a response.
C27_ErrorSticks ==
    [][/\ (pc \in Nodes /\ st.error # None) => st'.error # None
       /\ (pc = "END" /\ pc' = "idle" /\ st.error # None) =>
              /\ resp'.status = 500
              /\ resp'.detail = st.error
              /\ resp'.text = None
              /\ resp'.transcript = None]_vars

\* C27 witness: a text request whose error was written by the second stage has
\* been answered with status 500 after all eight stages ran
C27_EarlyErrorRaised ==
    /\ pc = "idle"
    /\ req.kind = "text"
    /\ err_at = 2
    /\ Len(trace) = 8
    /\ resp.status = 500
    /\ resp.detail = ErrNoAudio

(***************************************************************************)
(* The rate limiter and unknown sessions.                                  *)
(***************************************************************************)
\* a step that is a call of check_rate_limit on an id without a record
UnknownCheckStep(id) ==
    /\ id \notin DOMAIN rate_limits
    /\ ret'.op = "check_rate_limit"
    /\ ret'.sid = id
    /\ now' = now

\* C28: check_rate_limit on a session id with no rate-limit record returns
\* true, however many times it is called, creates no counter and changes no
\* state.
C28_UnknownSessionAdmitted ==
    [][\A id \in SessionIds :
          UnknownCheckStep(id) =>
              /\ ret'.val = TRUE
              /\ UNCHANGED <<sessions, context_windows, rate_limits>>]_vars

\* C28 witness: an unknown session was admitted while a known session had used
\* up its limit
C28_AdmittedUnknownBesideFull ==
    /\ ret.op = "check_rate_limit"
    /\ ret.sid \notin DOMAIN rate_limits
    /\ ret.val = TRUE
    /\ \E id \in DOMAIN rate_limits : rate_limits[id].requests = max_requests

(***************************************************************************)
(* The side effect of reading a session's configuration.                   *)
(***************************************************************************)
\* a step that is a call of a read operation on id
ReadStep(op, id) == ret'.op = op /\ ret'.sid = id /\ now' = now

\* get_session and get_context leave the store as it is
PureReads ==
    \A id \in SessionIds :
        (ReadStep("get_session", id) \/ ReadStep("get_context", id)) =>
            UNCHANGED <<sessions, context_windows, rate_limits>>

\* C29, as stated: each get_session_config call on a known session that is under
\* its limit increases the session's request count by one, whereas get_session
\* and get_context leave the store unchanged.
C29_ConfigCountsPlusOne ==
    [][/\ PureReads
       /\ \A id \in DOMAIN sessions :
             (ReadStep("get_session_config", id)
                 /\ rate_limits[id].requests < rate_limits[id].max_requests) =>
                   rate_limits'[id].requests = rate_limits[id].requests + 1]_vars

\* C29, amended: each get_session_config call on a known session performs a
\* rate-limit check: the count is first reset to zero if the window has passed,
\* and when it is then under the limit it increases by one and the call is
\* admitted; nothing else in the store changes.  get_session and get_context
\* leave the store unchanged.
C29_ConfigConsumesAdmission ==
    [][/\ PureReads
       /\ \A id \in DOMAIN sessions :
             ReadStep("get_session_config", id) =>
                LET passed == now >= rate_limits[id].reset_time
                    count == IF passed THEN 0 ELSE rate_limits[id].requests
                IN  /\ count < rate_limits[id].max_requests =>
                          /\ rate_limits'[id].requests = count + 1
                          /\ ret'.val.rate_limit_ok = TRUE
                    /\ \A other \in DOMAIN rate_limits \ {id} :
                          rate_limits'[other] = rate_limits[other]
                    /\ UNCHANGED <<sessions, context_windows>>]_vars

\* C29 witness: two configuration reads in one window have brought a session's
\* count to 2
C29_TwoConfigReads ==
    /\ ret.op = "get_session_config"
    /\ ret.sid \in DOMAIN rate_limits
    /\ ret.val.rate_limit_ok = TRUE
    /\ rate_limits[ret.sid].requests = 2
    /\ now < rate_limits[ret.sid].reset_time
    /\ now = sessions[ret.sid].created_at

(***************************************************************************)
(* The interval of the gesture placement loop.                             *)
(***************************************************************************)
\* C22: for a non-empty phoneme sequence of total duration D and emotion
\* intensity i, the gesture timeline places events at the fixed interval
\* D / (3 * i) (the nearest float to it, and a positive one) starting at time 0,
\* every event starting before D, and the events returned span the full
\* duration: three events per unit of intensity.
C22_EventsAtFixedInterval ==
    [][(GestureLoopRunning /\ fn.total_duration > 0) =>
          LET D == fn.total_duration
              i == emotion_intensity(fn.emotion)
              off == fn.gesture_interval * 3 * i - D * 10
          IN  /\ (IF off < 0 THEN 0 - off ELSE off) * 2 <= 3 * i
              /\ fn.gesture_interval > 0
              /\ fn'.events > fn.events =>
                     /\ fn.current_time = fn.events * fn.gesture_interval
                     /\ fn.current_time < D
              /\ fn'.returned =>
                     /\ ~fn'.raised
                     /\ fn.events * fn.gesture_interval >= D]_vars

(***************************************************************************)
(* Termination of the gesture placement loop.                              *)
(***************************************************************************)
\* C30: gesture timeline generation terminates for every non-empty phoneme
\* sequence and every emotion: each iteration of the placement loop increases
\* the current time by a positive interval until it reaches the total
\* duration, and when the total duration is 0 the loop body is never entered
\* (result empty) although the interval is 0.
C30_GestureLoopTerminates ==
    [][GestureLoopRunning =>
          /\ fn'.events > fn.events =>
                 /\ fn.gesture_interval > 0
                 /\ fn'.current_time > fn.current_time
          /\ ~fn'.raised
          /\ fn.total_duration = 0 => fn'.events = 0 /\ fn.gesture_interval = 0]_vars

=============================================================================
